---- MODULE Spec2Model ----
(***************************************************************************)
(* Interviewer availability calendar: the client's slot engine             *)
(* (src/App.tsx), the requests it issues and the spreadsheet-backed store  *)
(* behind the REST proxy (src/server.js).                                  *)
(*                                                                         *)
(* Strings that the code compares or parses are sequences of character     *)
(* codes, so that `<` on two time strings is the code-unit comparison      *)
(* JavaScript performs and timeToMins really parses "HH:MM".               *)
(***************************************************************************)
EXTENDS Integers, Sequences, FiniteSets, TLC

VARIABLES
  slots,                  \* App.tsx:99   useState<AvailabilitySlot[]>
  interviewers,           \* App.tsx:98   useState<Interviewer[]>
  selectedInterviewerIds, \* App.tsx:101  useState<Set<string>>
  uuid,                   \* number of ids generateUUID has handed out
  pending,                \* handleSaveSlot calls suspended at `await ensureInterviewerExists`
  net,                    \* requests sent by the client, not yet handled by the server
  sheetSlots,             \* rows of the Slots tab, first row included
  sheetInv,               \* rows of the Interviewers tab, first row included
  isLoading,              \* App.tsx:105  useState(true): nothing but "loading" is rendered
  ops,                    \* number of handler calls made so far
  lastOp,                 \* the handler that ran last, its arguments and what it found
  view,                   \* splitSlotsForDisplay at work on one day, and the unit clicked
  sheetNotes,             \* rows of the Notes tab, first row included
  cachedData,             \* unnamed/part_001:22  let cachedData = null
  lastCacheTime,          \* unnamed/part_001:23  let lastCacheTime = 0
  now,                    \* Date.now() of the server, in units of ten seconds
  gets,                   \* GET /api/data handlers suspended at `await batchGet`
  writes,                 \* write handlers suspended at their store call
  hist,                   \* what the requests answered so far were (history)
  isSaving,               \* App.tsx:106  useState(false)
  calls,                  \* handler calls suspended at an await, with their requests
  dayNotes                \* App.tsx:100  useState<DayNote[]>

\* the variables of the display and of the caching server
viewVars == <<view, sheetNotes>>

cacheVars == <<cachedData, lastCacheTime, now, gets, writes, hist>>

clientVars == <<isSaving, calls, dayNotes>>

vars == <<slots, interviewers, selectedInterviewerIds, uuid, pending, net,
          sheetSlots, sheetInv, isLoading, ops, lastOp, view, sheetNotes,
          cachedData, lastCacheTime, now, gets, writes, hist, isSaving, calls, dayNotes>>

---------------------------------------------------------------------------
(* Bounds of the model *)

MaxSlots == 3
MaxUUID == 4
MaxInflight == 2
MaxRows == 4
MaxOps == 3
MaxCalls == 2

---------------------------------------------------------------------------
(* Strings *)

\* "HH:MM" as the character codes of its five characters
TimeStr(h1, h2, m1, m2) == <<48 + h1, 48 + h2, 58, 48 + m1, 48 + m2>>

T0900 == TimeStr(0, 9, 0, 0)
T0930 == TimeStr(0, 9, 3, 0)
T1000 == TimeStr(1, 0, 0, 0)
T1030 == TimeStr(1, 0, 3, 0)

\* the empty string, JavaScript's undefined (an argument that was not passed)
\* and the boolean true, which the editor's delete button passes as targetStart
Empty == <<>>
Undef == <<-1>>
JsTrue == <<-2>>

Times == {T0900, T0930, T1000, T1030}

\* !t
Falsy(t) == t = Empty \/ t = Undef

\* a < b on strings: by code units, a proper prefix first; with undefined or
\* true on either side the comparison is made on numbers, one of them NaN, and is false
RECURSIVE LexLess(_, _)
LexLess(a, b) ==
  IF b = <<>> THEN FALSE
  ELSE IF a = <<>> THEN TRUE
  ELSE IF Head(a) # Head(b) THEN Head(a) < Head(b)
  ELSE LexLess(Tail(a), Tail(b))

JsLess(a, b) ==
  IF {a, b} \cap {Undef, JsTrue} # {} THEN FALSE ELSE LexLess(a, b)

JsGreater(a, b) == JsLess(b, a)

\* Number(s) for a string of decimal digits (Number('') is 0)
RECURSIVE ToNumber(_)
ToNumber(s) ==
  IF s = <<>> THEN 0
  ELSE 10 * ToNumber(SubSeq(s, 1, Len(s) - 1)) + (s[Len(s)] - 48)

\* position of the first ':' in s
ColonAt(s) == CHOOSE i \in 1..Len(s) : s[i] = 58 /\ \A j \in 1..(i - 1) : s[j] # 58

timeToMins(t) ==
  IF Falsy(t) THEN 0
  ELSE LET p == ColonAt(t)
           h == ToNumber(SubSeq(t, 1, p - 1))
           m == ToNumber(SubSeq(t, p + 1, Len(t)))
       IN h * 60 + m

\* interviewer names as typed, name.trim() and name.toLowerCase()
Names == {"amy", "Amy", " bob"}

Trim(n) == IF n = " bob" THEN "bob" ELSE n

ToLower(n) == IF n = "Amy" THEN "amy" ELSE n

Dates == {"2025-05-12"}

---------------------------------------------------------------------------
(* Records *)

NoId == 0

NoSlot == [id |-> NoId, interviewerId |-> NoId, date |-> "", startTime |-> Undef,
           endTime |-> Undef, isBooked |-> FALSE]

NoData == [id |-> NoId, date |-> "", startTime |-> Undef, endTime |-> Undef,
           isBooked |-> FALSE]

\* generateUUID: the n-th id handed out
generateUUID(n) == n

\* slots.find(s => s.id === id): index of the first match, 0 when there is none
FindIndex(seq, id) ==
  IF \E i \in 1..Len(seq) : seq[i].id = id
  THEN CHOOSE i \in 1..Len(seq) : seq[i].id = id /\ \A j \in 1..(i - 1) : seq[j].id # id
  ELSE 0

Find(seq, id) == IF FindIndex(seq, id) = 0 THEN NoSlot ELSE seq[FindIndex(seq, id)]

\* interviewers.find(i => i.name.toLowerCase() === trimmedName.toLowerCase())
FindInterviewer(invs, trimmedName) ==
  IF \E i \in 1..Len(invs) : ToLower(invs[i].name) = ToLower(trimmedName)
  THEN CHOOSE i \in 1..Len(invs) :
         /\ ToLower(invs[i].name) = ToLower(trimmedName)
         /\ \A j \in 1..(i - 1) : ToLower(invs[j].name) # ToLower(trimmedName)
  ELSE 0

\* prev.filter(s => s.id !== id)
FilterOut(seq, id) == SelectSeq(seq, LAMBDA s : s.id # id)

\* prev.map(s => s.id === id ? updated : s)
MapReplace(seq, id, updated) ==
  [i \in 1..Len(seq) |-> IF seq[i].id = id THEN updated ELSE seq[i]]

---------------------------------------------------------------------------
(* handleSaveSlot, from `try {` on: what it does to the slot list `prev`,   *)
(* given the slot `pre` that slots.find returned on the list the handler    *)
(* was created with (NoSlot when it returned nothing), the form data `d`,   *)
(* the interviewer id and the number `u` of ids handed out so far.          *)

Request(kind, id, rows) == [kind |-> kind, id |-> id, rows |-> rows]

\* slotData.startTime ? timeToMins(slotData.startTime) : oldStart
newStart(pre, d) ==
  IF Falsy(d.startTime) THEN timeToMins(pre.startTime) ELSE timeToMins(d.startTime)

\* slotData.endTime ? timeToMins(slotData.endTime) : oldEnd
newEnd(pre, d) ==
  IF Falsy(d.endTime) THEN timeToMins(pre.endTime) ELSE timeToMins(d.endTime)

\* { ...existingSlot, ...slotData, isBooked: !!slotData.isBooked, interviewerId: inv.id }
\* (a field that slotData does not carry keeps the value of existingSlot)
Merged(pre, d, invId) ==
  [id |-> d.id,
   interviewerId |-> invId,
   date |-> IF d.date = "" THEN pre.date ELSE d.date,
   startTime |-> IF d.startTime = Undef THEN pre.startTime ELSE d.startTime,
   endTime |-> IF d.endTime = Undef THEN pre.endTime ELSE d.endTime,
   isBooked |-> d.isBooked]

\* const originalStatus = false
originalStatus(pre) == FALSE

\* newStart >= oldStart && newEnd <= oldEnd && (newStart > oldStart || newEnd < oldEnd)
IsSplit(pre, d) ==
  LET oldStart == timeToMins(pre.startTime)
      oldEnd == timeToMins(pre.endTime)
  IN /\ newStart(pre, d) >= oldStart
     /\ newEnd(pre, d) <= oldEnd
     /\ (newStart(pre, d) > oldStart \/ newEnd(pre, d) < oldEnd)

\* if (newStart > oldStart)
HasHead(pre, d) == newStart(pre, d) > timeToMins(pre.startTime)

\* if (newEnd < oldEnd)
HasTail(pre, d) == newEnd(pre, d) < timeToMins(pre.endTime)

\* a faulty head remainder, ending where the edited range ends: C2 must tell it apart
HeadRemainderToNewEnd(pre, d, invId, newId) ==
  [pre EXCEPT !.id = newId, !.startTime = pre.startTime, !.endTime = d.endTime,
              !.isBooked = originalStatus(pre), !.interviewerId = invId]

HeadRemainder(pre, d, invId, newId) ==
  [pre EXCEPT !.id = newId, !.startTime = pre.startTime, !.endTime = d.startTime,
              !.isBooked = originalStatus(pre), !.interviewerId = invId]

TailRemainder(pre, d, invId, newId) ==
  [pre EXCEPT !.id = newId, !.startTime = d.endTime, !.endTime = pre.endTime,
              !.isBooked = originalStatus(pre), !.interviewerId = invId]

SplitResult(pre, prev, d, invId, u) ==
  LET nHead == IF HasHead(pre, d) THEN 1 ELSE 0
      nTail == IF HasTail(pre, d) THEN 1 ELSE 0
      heads == IF HasHead(pre, d)
               THEN <<HeadRemainder(pre, d, invId, generateUUID(u + 1))>> ELSE <<>>
      tails == IF HasTail(pre, d)
               THEN <<TailRemainder(pre, d, invId, generateUUID(u + nHead + 1))>> ELSE <<>>
      remainders == heads \o tails
      updatedMainSlot == Merged(pre, d, invId)
  IN [slots |-> FilterOut(prev, d.id) \o <<updatedMainSlot>> \o remainders,
      uuid |-> u + nHead + nTail,
      reqs |-> {Request("PUT", updatedMainSlot.id, <<updatedMainSlot>>)}
                 \cup (IF remainders # <<>> THEN {Request("BATCH", NoId, remainders)} ELSE {}),
      branch |-> "split",
      fresh |-> {remainders[i].id : i \in 1..Len(remainders)}]

\* a faulty update, adding the edited slot and keeping the old one: C11 must tell it apart
UpdateKeepsOld(pre, prev, d, invId, u) ==
  LET updatedSlot == Merged(pre, d, invId)
  IN [slots |-> Append(prev, updatedSlot),
      uuid |-> u,
      reqs |-> {Request("PUT", updatedSlot.id, <<updatedSlot>>)},
      branch |-> "update",
      fresh |-> {}]

UpdateResult(pre, prev, d, invId, u) ==
  LET updatedSlot == Merged(pre, d, invId)
  IN [slots |-> MapReplace(prev, d.id, updatedSlot),
      uuid |-> u,
      reqs |-> {Request("PUT", updatedSlot.id, <<updatedSlot>>)},
      branch |-> "update",
      fresh |-> {}]

CreateResult(prev, d, invId, u) ==
  LET newSlot == [id |-> generateUUID(u + 1), interviewerId |-> invId, date |-> d.date,
                  startTime |-> d.startTime, endTime |-> d.endTime, isBooked |-> d.isBooked]
  IN [slots |-> Append(prev, newSlot),
      uuid |-> u + 1,
      reqs |-> {Request("POST", NoId, <<newSlot>>)},
      branch |-> "create",
      fresh |-> {newSlot.id}]

SaveResult(pre, prev, d, invId, u) ==
  IF d.id # NoId
  THEN IF pre # NoSlot
       THEN IF IsSplit(pre, d)
            THEN SplitResult(pre, prev, d, invId, u)
            ELSE UpdateResult(pre, prev, d, invId, u)
       ELSE [slots |-> prev, uuid |-> u, reqs |-> {}, branch |-> "notfound", fresh |-> {}]
  ELSE CreateResult(prev, d, invId, u)

---------------------------------------------------------------------------
(* handleDeleteSlot: what it does to the slot list `prev` *)

\* a faulty full delete, dropping every slot of the list: C7 must tell it apart
DeleteFullDropsAll(prev, id, u) ==
  [slots |-> <<>>, uuid |-> u,
   reqs |-> {Request("DELETE", id, <<>>)}, branch |-> "full", fresh |-> {}]

\* (!targetStart && !targetEnd) || (targetStart === pStart && targetEnd === pEnd)
DeleteFullResult(prev, id, u) ==
  [slots |-> FilterOut(prev, id), uuid |-> u,
   reqs |-> {Request("DELETE", id, <<>>)}, branch |-> "full", fresh |-> {}]

\* a faulty head trim, moving the end of the slot instead of its start: C6 must tell it apart
TrimHeadMovesEnd(prev, id, parentSlot, targetEnd, u) ==
  LET updatedSlot == [parentSlot EXCEPT !.endTime = targetEnd]
  IN [slots |-> MapReplace(prev, id, updatedSlot), uuid |-> u,
      reqs |-> {Request("PUT", id, <<updatedSlot>>)}, branch |-> "trimHead", fresh |-> {}]

\* targetStart === pStart && targetEnd < pEnd
TrimHeadResult(prev, id, parentSlot, targetEnd, u) ==
  LET updatedSlot == [parentSlot EXCEPT !.startTime = targetEnd]
  IN [slots |-> MapReplace(prev, id, updatedSlot), uuid |-> u,
      reqs |-> {Request("PUT", id, <<updatedSlot>>)}, branch |-> "trimHead", fresh |-> {}]

\* targetEnd === pEnd && targetStart > pStart
TrimTailResult(prev, id, parentSlot, targetStart, u) ==
  LET updatedSlot == [parentSlot EXCEPT !.endTime = targetStart]
  IN [slots |-> MapReplace(prev, id, updatedSlot), uuid |-> u,
      reqs |-> {Request("PUT", id, <<updatedSlot>>)}, branch |-> "trimTail", fresh |-> {}]

\* a faulty middle delete, starting the second part where the target starts:
\* C5 must tell it apart
DeleteMiddleKeepsTarget(prev, id, parentSlot, targetStart, targetEnd, u) ==
  LET updatedPart1 == [parentSlot EXCEPT !.endTime = targetStart]
      newPart2 == [parentSlot EXCEPT !.id = generateUUID(u + 1),
                                     !.startTime = targetStart,
                                     !.endTime = parentSlot.endTime]
  IN [slots |-> Append(MapReplace(prev, id, updatedPart1), newPart2),
      uuid |-> u + 1,
      reqs |-> {Request("PUT", id, <<updatedPart1>>), Request("POST", NoId, <<newPart2>>)},
      branch |-> "middle", fresh |-> {newPart2.id}]

\* targetStart > pStart && targetEnd < pEnd
DeleteMiddleResult(prev, id, parentSlot, targetStart, targetEnd, u) ==
  LET updatedPart1 == [parentSlot EXCEPT !.endTime = targetStart]
      newPart2 == [parentSlot EXCEPT !.id = generateUUID(u + 1),
                                     !.startTime = targetEnd,
                                     !.endTime = parentSlot.endTime]
  IN [slots |-> Append(MapReplace(prev, id, updatedPart1), newPart2),
      uuid |-> u + 1,
      reqs |-> {Request("PUT", id, <<updatedPart1>>), Request("POST", NoId, <<newPart2>>)},
      branch |-> "middle", fresh |-> {newPart2.id}]

\* no branch of handleDeleteSlot applies
DeleteNothing(prev, u, branch) ==
  [slots |-> prev, uuid |-> u, reqs |-> {}, branch |-> branch, fresh |-> {}]

DeleteResult(prev, id, targetStart, targetEnd, u) ==
  LET parentSlot == Find(prev, id)
      pStart == parentSlot.startTime
      pEnd == parentSlot.endTime
  IN IF parentSlot = NoSlot
     THEN DeleteNothing(prev, u, "notfound")
     ELSE IF \/ (Falsy(targetStart) /\ Falsy(targetEnd))
             \/ (targetStart = pStart /\ targetEnd = pEnd)
     THEN DeleteFullResult(prev, id, u)
     ELSE IF targetStart = pStart /\ JsLess(targetEnd, pEnd)
     THEN TrimHeadResult(prev, id, parentSlot, targetEnd, u)
     ELSE IF targetEnd = pEnd /\ JsGreater(targetStart, pStart)
     THEN TrimTailResult(prev, id, parentSlot, targetStart, u)
     ELSE IF JsGreater(targetStart, pStart) /\ JsLess(targetEnd, pEnd)
     THEN DeleteMiddleResult(prev, id, parentSlot, targetStart, targetEnd, u)
     ELSE DeleteNothing(prev, u, "none")

---------------------------------------------------------------------------
(* The store: rows of the Slots and Interviewers tabs *)

\* the text the store returns for a cell that was written as a boolean
CellText(b) == IF b THEN "true" ELSE "false"

HeaderRow == [id |-> NoId, interviewerId |-> NoId, date |-> "date",
              startTime |-> Undef, endTime |-> Undef, isBooked |-> FALSE]

InvHeaderRow == [id |-> NoId, name |-> "name", color |-> 0]

NoteHeaderRow == [date |-> "date", content |-> "content", color |-> "color"]

\* the text of the id n with blanks around it, as a cell edited by hand can
\* hold: written as the negative of n
PaddedId(n) == 0 - n

\* String(x).trim() of the text of an id
TrimId(k) == IF k < 0 THEN 0 - k ELSE k

\* mutant: the 0-based index taken for the 1-based row
findRowIndexOneBased(rows, id) ==
  IF \E i \in 1..Len(rows) : TrimId(rows[i].id) = TrimId(id)
  THEN CHOOSE i \in 1..Len(rows) :
         /\ TrimId(rows[i].id) = TrimId(id)
         /\ \A j \in 1..(i - 1) : TrimId(rows[j].id) # TrimId(id)
  ELSE -1

\* findRowIndexById: 0-based index of the first row whose column A, trimmed,
\* equals the trimmed id, -1 if none
findRowIndexById(rows, id) ==
  IF \E i \in 1..Len(rows) : TrimId(rows[i].id) = TrimId(id)
  THEN (CHOOSE i \in 1..Len(rows) :
          /\ TrimId(rows[i].id) = TrimId(id)
          /\ \A j \in 1..(i - 1) : TrimId(rows[j].id) # TrimId(id)) - 1
  ELSE -1

\* findRowIndexByDate: 0-based index of the first row whose column A === dateStr, -1 if none
findRowIndexByDate(rows, dateStr) ==
  IF \E i \in 1..Len(rows) : rows[i].date = dateStr
  THEN (CHOOSE i \in 1..Len(rows) :
          /\ rows[i].date = dateStr
          /\ \A j \in 1..(i - 1) : rows[j].date # dateStr) - 1
  ELSE -1

\* values.update on row rowIndex + 1
UpdateRow(rows, rowIndex, row) == [rows EXCEPT ![rowIndex + 1] = row]

\* deleteDimension ROWS [rowIndex, rowIndex + 1)
DeleteRow(rows, rowIndex) ==
  SubSeq(rows, 1, rowIndex) \o SubSeq(rows, rowIndex + 2, Len(rows))

\* app.delete('/api/slots/:id'): find and delete until nothing is found
RECURSIVE DeleteAll(_, _)
DeleteAll(rows, id) ==
  IF findRowIndexById(rows, id) = -1 THEN rows
  ELSE DeleteAll(DeleteRow(rows, findRowIndexById(rows, id)), id)

\* app.put('/api/slots/:id') and app.post('/api/interviewers'): update the row found, else append
Upsert(rows, id, row) ==
  IF findRowIndexById(rows, id) = -1 THEN Append(rows, row)
  ELSE UpdateRow(rows, findRowIndexById(rows, id), row)

\* app.post('/api/notes'): update the row found by date, else append
UpsertNote(rows, n) ==
  IF findRowIndexByDate(rows, n.date) = -1 THEN Append(rows, n)
  ELSE UpdateRow(rows, findRowIndexByDate(rows, n.date), n)

\* app.delete('/api/notes/:date'): delete the row found by date, if any
DeleteNote(rows, date) ==
  IF findRowIndexByDate(rows, date) # -1 THEN DeleteRow(rows, findRowIndexByDate(rows, date))
  ELSE rows

\* noteRows.slice(1).map(...).filter(n => n.date)
GetNotes(rows) ==
  LET body == IF rows = <<>> THEN <<>> ELSE Tail(rows)
  IN SelectSeq(body, LAMBDA r : r.date # "")

\* app.get('/api/data'): slotRows.slice(1).map(...).filter(s => s.id && s.date)
GetSlots(rows) ==
  LET body == IF rows = <<>> THEN <<>> ELSE Tail(rows)
      mapped == [i \in 1..Len(body) |->
                   [body[i] EXCEPT !.isBooked = (CellText(body[i].isBooked) = "true")]]
  IN SelectSeq(mapped, LAMBDA r : r.id # NoId /\ r.date # "")

\* invRows.slice(1).map(...).filter(i => i.id && i.name)
GetInterviewers(rows) ==
  LET body == IF rows = <<>> THEN <<>> ELSE Tail(rows)
  IN SelectSeq(body, LAMBDA r : r.id # NoId /\ r.name # "")

\* fetchData: startTime: s.startTime || '09:00', endTime: s.endTime || '09:30'
safeSlots(data) ==
  [i \in 1..Len(data) |->
     [data[i] EXCEPT !.startTime = IF Falsy(data[i].startTime) THEN T0900 ELSE data[i].startTime,
                     !.endTime = IF Falsy(data[i].endTime) THEN T0930 ELSE data[i].endTime]]

---------------------------------------------------------------------------
(* Actions *)

NumColors == 10

NoOp == [op |-> "none", branch |-> "", id |-> NoId, targetStart |-> Undef,
         targetEnd |-> Undef, d |-> NoData, pre |-> NoSlot, fresh |-> {},
         sent |-> {}, reported |-> FALSE]

Inflight == Cardinality(net) + Cardinality(pending)

\* no day is being rendered
NoView == [pc |-> "idle", day |-> <<>>, k |-> 1, current |-> 0, endTime |-> 0,
           safety |-> 0, result |-> <<>>, clicked |-> 0, realId |-> <<>>]

\* no request has been answered
NoHist == [answered |-> {}, wrote |-> FALSE]

\* let cachedData = null
NoCache == [slots |-> <<>>, interviewers |-> <<>>, notes |-> <<>>, null |-> TRUE]

SlotData == [id : 0..MaxUUID, date : Dates, startTime : Times, endTime : Times,
             isBooked : BOOLEAN]

Init ==
  /\ slots = <<>>
  /\ interviewers = <<>>
  /\ selectedInterviewerIds = {}
  /\ uuid = 0
  /\ pending = {}
  /\ net = {}
  /\ \/ sheetSlots = <<>> /\ sheetInv = <<>>
     \/ sheetSlots = <<HeaderRow>> /\ sheetInv = <<InvHeaderRow>>
  /\ isLoading = TRUE
  /\ ops = 0
  /\ lastOp = NoOp
  /\ view = NoView
  /\ sheetNotes = <<NoteHeaderRow>>
  /\ cachedData = NoCache
  /\ lastCacheTime = 0
  /\ now = 0
  /\ gets = {}
  /\ writes = {}
  /\ hist = NoHist
  /\ isSaving = FALSE
  /\ calls = {}
  /\ dayNotes = <<>>

\* the part of handleSaveSlot after the interviewer is known, on the client's state
LocalSave(pre, d, invId, opName) ==
  LET r == SaveResult(pre, slots, d, invId, uuid)
  IN /\ Len(r.slots) <= MaxSlots
     /\ r.uuid <= MaxUUID
     /\ slots' = r.slots
     /\ uuid' = r.uuid
     /\ lastOp' = [NoOp EXCEPT !.op = opName, !.branch = r.branch, !.id = d.id, !.d = d,
                               !.pre = pre, !.fresh = r.fresh,
                               !.sent = {q.kind : q \in r.reqs}]

\* the same with its fetch calls
ApplySave(pre, d, invId, opName) ==
  LET r == SaveResult(pre, slots, d, invId, uuid)
  IN /\ Cardinality(net \cup r.reqs) + Cardinality(pending') <= MaxInflight
     /\ LocalSave(pre, d, invId, opName)
     /\ net' = net \cup r.reqs

\* handleSaveSlot, called with an interviewer name that is already known
HandleSaveSlot(d, interviewerName) ==
  LET k == FindInterviewer(interviewers, Trim(interviewerName))
  IN /\ ~isLoading
     /\ ops < MaxCalls
     /\ ops' = ops + 1
     /\ d.id <= uuid
     /\ k # 0
     /\ selectedInterviewerIds' = selectedInterviewerIds \cup {interviewers[k].id}
     /\ pending' = pending
     /\ ApplySave(Find(slots, d.id), d, interviewers[k].id, "save")
     /\ UNCHANGED <<interviewers, sheetSlots, sheetInv, isLoading>>
     /\ UNCHANGED <<viewVars, cacheVars>>
     /\ UNCHANGED clientVars

\* handleSaveSlot, called with a new name: up to `await ensureInterviewerExists(inv)`
HandleSaveSlotNew(d, interviewerName) ==
  LET k == FindInterviewer(interviewers, Trim(interviewerName))
      inv == [id |-> generateUUID(uuid + 1), name |-> Trim(interviewerName),
              color |-> Len(interviewers) % NumColors]
  IN /\ ~isLoading
     /\ ops < MaxCalls
     /\ ops' = ops + 1
     /\ d.id <= uuid
     /\ k = 0
     /\ uuid < MaxUUID
     /\ Inflight < MaxInflight
     /\ interviewers' = Append(interviewers, inv)
     /\ selectedInterviewerIds' = selectedInterviewerIds \cup {inv.id}
     /\ uuid' = uuid + 1
     /\ pending' = pending \cup {[d |-> d, inv |-> inv, pre |-> Find(slots, d.id),
                                  answered |-> FALSE]}
     /\ lastOp' = [NoOp EXCEPT !.op = "saveAwait", !.id = d.id, !.d = d,
                               !.pre = Find(slots, d.id), !.fresh = {inv.id},
                               !.sent = {"INV"}]
     /\ UNCHANGED <<slots, net, sheetSlots, sheetInv, isLoading>>
     /\ UNCHANGED <<viewVars, cacheVars>>
     /\ UNCHANGED clientVars

\* app.post('/api/interviewers') for the request of a suspended handleSaveSlot
ServerInterviewer(p) ==
  /\ ~p.answered
  /\ sheetInv' = Upsert(sheetInv, p.inv.id, p.inv)
  /\ pending' = (pending \ {p}) \cup {[p EXCEPT !.answered = TRUE]}
  /\ lastOp' = [NoOp EXCEPT !.op = "server"]
  /\ UNCHANGED <<slots, interviewers, selectedInterviewerIds, uuid, net, sheetSlots, isLoading, ops>>
  /\ UNCHANGED <<viewVars, cacheVars>>
  /\ UNCHANGED clientVars

\* handleSaveSlot resumed after `await ensureInterviewerExists(inv)`
ResumeSaveSlot(p) ==
  /\ p.answered
  /\ pending' = pending \ {p}
  /\ ApplySave(p.pre, p.d, p.inv.id, "save")
  /\ UNCHANGED <<interviewers, selectedInterviewerIds, sheetSlots, sheetInv, isLoading, ops>>
  /\ UNCHANGED <<viewVars, cacheVars>>
  /\ UNCHANGED clientVars

\* handleDeleteSlot on the client's state
LocalDelete(id, targetStart, targetEnd) ==
  LET r == DeleteResult(slots, id, targetStart, targetEnd, uuid)
  IN /\ id <= uuid
     /\ Len(r.slots) <= MaxSlots
     /\ r.uuid <= MaxUUID
     /\ slots' = r.slots
     /\ uuid' = r.uuid
     /\ lastOp' = [NoOp EXCEPT !.op = "delete", !.branch = r.branch, !.id = id,
                               !.targetStart = targetStart, !.targetEnd = targetEnd,
                               !.pre = Find(slots, id), !.fresh = r.fresh,
                               !.sent = {q.kind : q \in r.reqs}]

\* the same with its fetch calls
HandleDeleteSlot(id, targetStart, targetEnd) ==
  LET r == DeleteResult(slots, id, targetStart, targetEnd, uuid)
  IN /\ ~isLoading
     /\ ops < MaxCalls
     /\ ops' = ops + 1
     /\ Cardinality(net \cup r.reqs) + Cardinality(pending) <= MaxInflight
     /\ LocalDelete(id, targetStart, targetEnd)
     /\ net' = net \cup r.reqs
     /\ UNCHANGED <<interviewers, selectedInterviewerIds, pending, sheetSlots, sheetInv,
                    isLoading>>
     /\ UNCHANGED <<viewVars, cacheVars>>
     /\ UNCHANGED clientVars

\* app.post('/api/slots') and app.post('/api/slots/batch'): values.append
ServerAppend(q) ==
  /\ q.kind \in {"POST", "BATCH"}
  /\ Len(sheetSlots) + Len(q.rows) <= MaxRows
  /\ sheetSlots' = sheetSlots \o q.rows
  /\ net' = net \ {q}
  /\ lastOp' = [NoOp EXCEPT !.op = "server"]
  /\ UNCHANGED <<slots, interviewers, selectedInterviewerIds, uuid, pending, sheetInv, isLoading, ops>>
  /\ UNCHANGED <<viewVars, cacheVars>>
  /\ UNCHANGED clientVars

\* app.put('/api/slots/:id')
ServerPut(q) ==
  /\ q.kind = "PUT"
  /\ Len(Upsert(sheetSlots, q.id, q.rows[1])) <= MaxRows
  /\ sheetSlots' = Upsert(sheetSlots, q.id, q.rows[1])
  /\ net' = net \ {q}
  /\ lastOp' = [NoOp EXCEPT !.op = "server"]
  /\ UNCHANGED <<slots, interviewers, selectedInterviewerIds, uuid, pending, sheetInv, isLoading, ops>>
  /\ UNCHANGED <<viewVars, cacheVars>>
  /\ UNCHANGED clientVars

\* app.delete('/api/slots/:id')
ServerDelete(q) ==
  /\ q.kind = "DELETE"
  /\ sheetSlots' = DeleteAll(sheetSlots, q.id)
  /\ net' = net \ {q}
  /\ lastOp' = [NoOp EXCEPT !.op = "server"]
  /\ UNCHANGED <<slots, interviewers, selectedInterviewerIds, uuid, pending, sheetInv, isLoading, ops>>
  /\ UNCHANGED <<viewVars, cacheVars>>
  /\ UNCHANGED clientVars

\* fetchData, the GET answered with the tables
FetchData ==
  LET fetchedInterviewers == GetInterviewers(sheetInv)
      fetchedIds == {fetchedInterviewers[i].id : i \in 1..Len(fetchedInterviewers)}
      existingKnownIds == {interviewers[i].id : i \in 1..Len(interviewers)}
  IN /\ slots' = safeSlots(GetSlots(sheetSlots))
     /\ interviewers' = fetchedInterviewers
     /\ selectedInterviewerIds' =
          IF selectedInterviewerIds = {} THEN fetchedIds
          ELSE selectedInterviewerIds \cup (fetchedIds \ existingKnownIds)
     /\ isLoading' = FALSE
     /\ lastOp' = [NoOp EXCEPT !.op = "fetch"]
     /\ UNCHANGED <<uuid, pending, net, sheetSlots, sheetInv, ops>>
     /\ UNCHANGED <<viewVars, cacheVars>>
     /\ UNCHANGED clientVars

\* fetchData, the GET failing: the catch block, then finally
FetchDataFailed ==
  /\ isLoading' = FALSE
  /\ lastOp' = [NoOp EXCEPT !.op = "fetchFailed"]
  /\ UNCHANGED <<slots, interviewers, selectedInterviewerIds, uuid, pending, net,
                 sheetSlots, sheetInv, ops>>
  /\ UNCHANGED <<viewVars, cacheVars>>
  /\ UNCHANGED clientVars

\* the arguments of handleDeleteSlot: a range, either bound possibly not passed,
\* and what the editor's delete button passes, onDelete(initialSlot.id, true)
DeleteArgs(times) ==
  ((times \cup {Undef}) \X (times \cup {Undef})) \cup {<<JsTrue, Undef>>}

\* the inputs of the whole system: two times, so that the store stays small
SyncTimes == {T0900, T0930}

SyncData == [id : 0..MaxUUID, date : Dates, startTime : SyncTimes, endTime : SyncTimes,
             isBooked : {FALSE}]

SyncNames == {"Amy", "amy"}

Next ==
  \/ \E d \in SyncData, n \in SyncNames : HandleSaveSlot(d, n)
  \/ \E d \in SyncData, n \in SyncNames : HandleSaveSlotNew(d, n)
  \/ \E p \in pending : ServerInterviewer(p)
  \/ \E p \in pending : ResumeSaveSlot(p)
  \/ \E id \in 1..MaxUUID, a \in DeleteArgs(SyncTimes) : HandleDeleteSlot(id, a[1], a[2])
  \/ \E q \in net : ServerAppend(q)
  \/ \E q \in net : ServerPut(q)
  \/ \E q \in net : ServerDelete(q)
  \/ FetchData
  \/ FetchDataFailed

Spec == Init /\ [][Next]_vars

---------------------------------------------------------------------------
(* The slot engine alone: handleSaveSlot and handleDeleteSlot applied to a    *)
(* slot list, over every form input, with the owner's id given.              *)

OwnerIds == {MaxUUID + 1, MaxUUID + 2}

\* the ranges a new slot is created with: three that overlap, one with its bounds swapped
CreateRanges == {<<T0900, T1030>>, <<T0900, T1000>>, <<T0930, T1030>>, <<T1000, T0930>>}

CreateData == {d \in SlotData : d.id = NoId /\ <<d.startTime, d.endTime>> \in CreateRanges}

ResizeData == {d \in SlotData : d.id # NoId}

EngineSave(d, invId) ==
  /\ ops < MaxOps
  /\ ops' = ops + 1
  /\ d.id <= uuid
  /\ LocalSave(Find(slots, d.id), d, invId, "save")
  /\ UNCHANGED <<interviewers, selectedInterviewerIds, pending, net, sheetSlots, sheetInv,
                 isLoading>>
  /\ UNCHANGED <<viewVars, cacheVars>>
  /\ UNCHANGED clientVars

EngineDelete(id, targetStart, targetEnd) ==
  /\ ops < MaxOps
  /\ ops' = ops + 1
  /\ LocalDelete(id, targetStart, targetEnd)
  /\ UNCHANGED <<interviewers, selectedInterviewerIds, pending, net, sheetSlots, sheetInv,
                 isLoading>>
  /\ UNCHANGED <<viewVars, cacheVars>>
  /\ UNCHANGED clientVars

InitEngine ==
  /\ slots = <<>>
  /\ interviewers = <<>>
  /\ selectedInterviewerIds = {}
  /\ uuid = 0
  /\ pending = {}
  /\ net = {}
  /\ sheetSlots = <<HeaderRow>>
  /\ sheetInv = <<InvHeaderRow>>
  /\ isLoading = FALSE
  /\ ops = 0
  /\ lastOp = NoOp
  /\ view = NoView
  /\ sheetNotes = <<NoteHeaderRow>>
  /\ cachedData = NoCache
  /\ lastCacheTime = 0
  /\ now = 0
  /\ gets = {}
  /\ writes = {}
  /\ hist = NoHist
  /\ isSaving = FALSE
  /\ calls = {}
  /\ dayNotes = <<>>

NextEngine ==
  \/ \E d \in CreateData, invId \in OwnerIds : EngineSave(d, invId)
  \/ \E d \in ResizeData, invId \in OwnerIds : EngineSave(d, invId)
  \/ \E id \in 1..MaxUUID, a \in DeleteArgs(Times) : EngineDelete(id, a[1], a[2])

SpecEngine == InitEngine /\ [][NextEngine]_vars

---------------------------------------------------------------------------
(* The calendar of one day: calendarDays picks the day's slots,              *)
(* splitSlotsForDisplay cuts them into half-hour units, one step of the      *)
(* model for each pass of its forEach callback and of its while loop, and a  *)
(* click on a unit resolves the slot it came from.                           *)

MaxDaySlots == 2

T0000 == TimeStr(0, 0, 0, 0)
T0915 == TimeStr(0, 9, 1, 5)
T1015 == TimeStr(1, 0, 1, 5)
T2359 == TimeStr(2, 3, 5, 9)

\* a string that parse(_, 'HH:mm', _) gives an Invalid Date for
TBad == TimeStr(2, 5, 0, 0)

IsDigit(c) == 48 <= c /\ c <= 57

\* isValid(parse(t, 'HH:mm', new Date())): two digits, a colon, two digits, an
\* hour up to 23 and a minute up to 59
IsValidTime(t) ==
  /\ Len(t) = 5
  /\ t[3] = 58
  /\ \A i \in {1, 2, 4, 5} : IsDigit(t[i])
  /\ ToNumber(SubSeq(t, 1, 2)) <= 23
  /\ ToNumber(SubSeq(t, 4, 5)) <= 59

\* parse(t, 'HH:mm', new Date()) as minutes since the start of today
ParseTime(t) == ToNumber(SubSeq(t, 1, 2)) * 60 + ToNumber(SubSeq(t, 4, 5))

\* addMinutes(current, 30)
addMinutes(current, n) == current + n

\* format(date, 'HH:mm') of a date given as minutes since the start of today
FormatTime(m) ==
  LET h == (m \div 60) % 24
      mm == m % 60
  IN TimeStr(h \div 10, h % 10, mm \div 10, mm % 10)

\* format(date, 'HHmm')
FormatHHmm(m) == <<FormatTime(m)[1], FormatTime(m)[2], FormatTime(m)[4], FormatTime(m)[5]>>

\* the characters of an id: generateUUID's n-th id is written as the number n
RECURSIVE IdText(_)
IdText(n) == IF n < 10 THEN <<48 + n>> ELSE IdText(n \div 10) \o <<48 + (n % 10)>>

\* s.split('__')[0]: s up to the first "__", all of s when there is none
SplitFirst(s) ==
  IF \E i \in 1..(Len(s) - 1) : s[i] = 95 /\ s[i + 1] = 95
  THEN SubSeq(s, 1, (CHOOSE i \in 1..(Len(s) - 1) :
                       /\ s[i] = 95 /\ s[i + 1] = 95
                       /\ \A j \in 1..(i - 1) : ~(s[j] = 95 /\ s[j + 1] = 95)) - 1)
  ELSE s

\* slots.filter(s => s.date === dateStr && selectedInterviewerIds.has(s.interviewerId))
\* and then those whose interviewer is found
daySlotsRaw(dateStr) ==
  SelectSeq(slots, LAMBDA x :
    /\ x.date = dateStr
    /\ x.interviewerId \in selectedInterviewerIds
    /\ \E i \in 1..Len(interviewers) : interviewers[i].id = x.interviewerId)

\* result.push(slot): the slot as it is; src is the place of the slot in the day's list
SlotAsUnit(slot, src) ==
  [id |-> IdText(slot.id), originalId |-> NoId, interviewerId |-> slot.interviewerId,
   date |-> slot.date, startTime |-> slot.startTime, endTime |-> slot.endTime,
   isBooked |-> slot.isBooked, src |-> src]

\* { ...slot, originalId: slot.id, id: `${slot.id}__${format(current, 'HHmm')}`, ... }
HalfHourUnit(slot, src, current, next) ==
  [id |-> IdText(slot.id) \o <<95, 95>> \o FormatHHmm(current), originalId |-> slot.id,
   interviewerId |-> slot.interviewerId, date |-> slot.date,
   startTime |-> FormatTime(current), endTime |-> FormatTime(next),
   isBooked |-> slot.isBooked, src |-> src]

\* a faulty guard that lets a slot with start >= end into the loop: C15 must tell it apart
IsDegenerateNoOrderCheck(slot) ==
  \/ Falsy(slot.startTime) \/ Falsy(slot.endTime)
  \/ ~IsValidTime(slot.startTime) \/ ~IsValidTime(slot.endTime)

\* the three guards before the loop
IsDegenerate(slot) ==
  \/ Falsy(slot.startTime) \/ Falsy(slot.endTime)
  \/ ~IsValidTime(slot.startTime) \/ ~IsValidTime(slot.endTime)
  \/ ParseTime(slot.startTime) >= ParseTime(slot.endTime)

\* the body of the while loop, run to its end: the half-hour units of one slot
RECURSIVE HalfHours(_, _, _, _, _)
HalfHours(slot, src, current, endTime, safety) ==
  IF current < endTime /\ safety < 50 /\ addMinutes(current, 30) <= endTime
  THEN <<HalfHourUnit(slot, src, current, addMinutes(current, 30))>>
         \o HalfHours(slot, src, addMinutes(current, 30), endTime, safety + 1)
  ELSE <<>>

\* daySlots.forEach(...) from the k-th slot on, with the result so far
RECURSIVE SplitInto(_, _, _)
SplitInto(result, daySlots, k) ==
  IF k > Len(daySlots) THEN result
  ELSE LET slot == daySlots[k]
           looped == result \o HalfHours(slot, k, ParseTime(slot.startTime),
                                         ParseTime(slot.endTime), 0)
       IN SplitInto(IF IsDegenerate(slot) THEN Append(result, SlotAsUnit(slot, k))
                    ELSE IF Len(looped) = 0 THEN Append(looped, SlotAsUnit(slot, k))
                    ELSE looped,
                    daySlots, k + 1)

\* splitSlotsForDisplay as a function of the list it is passed
splitSlotsForDisplay(daySlots) == SplitInto(<<>>, daySlots, 1)

\* the forEach callback is entered for the next slot of the day
Visit ==
  /\ view.pc = "forEach"
  /\ view.k <= Len(view.day)
  /\ LET slot == view.day[view.k]
     IN view' = IF IsDegenerate(slot)
                THEN [view EXCEPT !.result = Append(@, SlotAsUnit(slot, view.k)), !.k = @ + 1]
                ELSE [view EXCEPT !.pc = "while", !.current = ParseTime(slot.startTime),
                                  !.endTime = ParseTime(slot.endTime), !.safety = 0]
  /\ UNCHANGED <<slots, interviewers, selectedInterviewerIds, uuid, pending, net, sheetSlots,
                 sheetInv, isLoading, ops, lastOp, sheetNotes, cacheVars>>
  /\ UNCHANGED clientVars

\* while (current < endTime && safety < 50) with next <= endTime: one unit is pushed
Iterate ==
  /\ view.pc = "while"
  /\ view.current < view.endTime /\ view.safety < 50
  /\ addMinutes(view.current, 30) <= view.endTime
  /\ view' = [view EXCEPT
       !.result = Append(@, HalfHourUnit(view.day[view.k], view.k, view.current,
                                         addMinutes(view.current, 30))),
       !.current = addMinutes(view.current, 30),
       !.safety = @ + 1]
  /\ UNCHANGED <<slots, interviewers, selectedInterviewerIds, uuid, pending, net, sheetSlots,
                 sheetInv, isLoading, ops, lastOp, sheetNotes, cacheVars>>
  /\ UNCHANGED clientVars

\* the loop ends, by its condition or by `if (next > endTime) break`; then
\* `if (result.length === 0) result.push(slot)`
Leave ==
  /\ view.pc = "while"
  /\ ~(/\ view.current < view.endTime /\ view.safety < 50
       /\ addMinutes(view.current, 30) <= view.endTime)
  /\ view' = [view EXCEPT
       !.result = IF Len(@) = 0 THEN Append(@, SlotAsUnit(view.day[view.k], view.k)) ELSE @,
       !.k = @ + 1,
       !.pc = "forEach"]
  /\ UNCHANGED <<slots, interviewers, selectedInterviewerIds, uuid, pending, net, sheetSlots,
                 sheetInv, isLoading, ops, lastOp, sheetNotes, cacheVars>>
  /\ UNCHANGED clientVars

\* return result
Return ==
  /\ view.pc = "forEach"
  /\ view.k > Len(view.day)
  /\ view' = [view EXCEPT !.pc = "done"]
  /\ UNCHANGED <<slots, interviewers, selectedInterviewerIds, uuid, pending, net, sheetSlots,
                 sheetInv, isLoading, ops, lastOp, sheetNotes, cacheVars>>
  /\ UNCHANGED clientVars

\* onClick of the n-th unit: realId = slot.originalId || slot.id.split('__')[0]
Click(n) ==
  /\ view.pc = "done"
  /\ view' = [view EXCEPT
       !.pc = "clicked",
       !.clicked = n,
       !.realId = IF view.result[n].originalId # NoId
                  THEN IdText(view.result[n].originalId)
                  ELSE SplitFirst(view.result[n].id)]
  /\ UNCHANGED <<slots, interviewers, selectedInterviewerIds, uuid, pending, net, sheetSlots,
                 sheetInv, isLoading, ops, lastOp, sheetNotes, cacheVars>>
  /\ UNCHANGED clientVars

\* the ranges of the slots of the day: whole half hours, a quarter of an hour
\* left over, less than half an hour, off the half-hour grid, the whole day,
\* bounds swapped, empty, a bound missing, a bound that is no time
DisplayRanges ==
  {<<T0900, T1030>>, <<T0900, T1015>>, <<T0900, T0915>>, <<T0915, T1015>>, <<T0000, T2359>>,
   <<T1000, T0900>>, <<T0900, T0900>>, <<Empty, T1000>>, <<T0900, TBad>>}

DisplayOwner == [id |-> MaxUUID + 1, name |-> "Amy", color |-> 0]

\* the lists of slots of one day: the i-th slot has the id i or the id of the
\* first, as the two rows have that a PUT handled before its POST leaves
DayLists ==
  UNION {{ f \in [1..n -> [id : 1..MaxDaySlots, interviewerId : {DisplayOwner.id},
                           date : Dates, startTime : Times \cup {T0000, T0915, T1000, Empty},
                           endTime : Times \cup {T1015, T0915, T2359, TBad},
                           isBooked : {FALSE}]] :
             \A i \in 1..n : /\ f[i].id \in {1, i}
                             /\ <<f[i].startTime, f[i].endTime>> \in DisplayRanges }
         : n \in 1..MaxDaySlots}

InitDisplay ==
  /\ slots \in DayLists
  /\ interviewers = <<DisplayOwner>>
  /\ selectedInterviewerIds = {DisplayOwner.id}
  /\ uuid = MaxDaySlots
  /\ pending = {}
  /\ net = {}
  /\ sheetSlots = <<HeaderRow>>
  /\ sheetInv = <<InvHeaderRow>>
  /\ isLoading = FALSE
  /\ ops = 0
  /\ lastOp = NoOp
  /\ view = [NoView EXCEPT !.pc = "forEach", !.day = daySlotsRaw("2025-05-12")]
  /\ sheetNotes = <<NoteHeaderRow>>
  /\ cachedData = NoCache
  /\ lastCacheTime = 0
  /\ now = 0
  /\ gets = {}
  /\ writes = {}
  /\ hist = NoHist
  /\ isSaving = FALSE
  /\ calls = {}
  /\ dayNotes = <<>>

NextDisplay ==
  \/ Visit
  \/ Iterate
  \/ Leave
  \/ Return
  \/ \E n \in 1..Len(view.result) : Click(n)

SpecDisplay == InitDisplay /\ [][NextDisplay]_vars

\* splitSlotsForDisplay is one synchronous call: it runs until it returns
FairDisplay == SpecDisplay /\ WF_vars(Visit \/ Iterate \/ Leave \/ Return)

---------------------------------------------------------------------------
(* The store adapter by itself: the handlers of server.js that look a row up *)
(* by key, each run alone on tables that hold any rows, duplicates and keys  *)
(* with blanks included.                                                     *)

MaxStoreRows == 3

NoteDates == {"2025-05-12", "2025-05-12 ", "2025-05-13"}

SlotRows ==
  [id : {1, 2, PaddedId(1)}, interviewerId : {DisplayOwner.id}, date : Dates,
   startTime : {T0900}, endTime : {T0930, T1000}, isBooked : {FALSE}]

NoteRows == [date : NoteDates, content : {"a", "b"}, color : {"yellow"}]

InvRows == [id : {1, 2, PaddedId(1)}, name : {"amy"}, color : {0, 1}]

\* a header row and up to MaxStoreRows rows
TablesOf(header, rowSet) ==
  UNION {{<<header>> \o [i \in 1..n |-> f[i]] : f \in [1..n -> rowSet]} : n \in 0..MaxStoreRows}

\* what the last handler run was, on which table and key, and the table before it
StoreOp(op, table, key, row, before) ==
  [op |-> op, table |-> table, key |-> key, row |-> row, before |-> before]

\* app.delete('/api/slots/:id')
StoreDeleteSlot(id) ==
  /\ ops < MaxCalls
  /\ ops' = ops + 1
  /\ sheetSlots' = DeleteAll(sheetSlots, id)
  /\ lastOp' = StoreOp("deleteByKey", "Slots", id, HeaderRow, sheetSlots)
  /\ UNCHANGED <<slots, interviewers, selectedInterviewerIds, uuid, pending, net, sheetInv,
                 isLoading, viewVars, cacheVars>>
  /\ UNCHANGED clientVars

\* app.delete('/api/notes/:date')
StoreDeleteNote(date) ==
  /\ ops < MaxCalls
  /\ ops' = ops + 1
  /\ sheetNotes' = DeleteNote(sheetNotes, date)
  /\ lastOp' = StoreOp("deleteByKey", "Notes", date, NoteHeaderRow, sheetNotes)
  /\ UNCHANGED <<slots, interviewers, selectedInterviewerIds, uuid, pending, net, sheetSlots,
                 sheetInv, isLoading, view, cacheVars>>
  /\ UNCHANGED clientVars

\* app.put('/api/slots/:id')
StorePutSlot(s) ==
  /\ ops < MaxCalls
  /\ ops' = ops + 1
  /\ sheetSlots' = Upsert(sheetSlots, s.id, s)
  /\ lastOp' = StoreOp("upsert", "Slots", s.id, s, sheetSlots)
  /\ UNCHANGED <<slots, interviewers, selectedInterviewerIds, uuid, pending, net, sheetInv,
                 isLoading, viewVars, cacheVars>>
  /\ UNCHANGED clientVars

\* app.post('/api/notes')
StoreUpsertNote(n) ==
  /\ ops < MaxCalls
  /\ ops' = ops + 1
  /\ sheetNotes' = UpsertNote(sheetNotes, n)
  /\ lastOp' = StoreOp("upsert", "Notes", n.date, n, sheetNotes)
  /\ UNCHANGED <<slots, interviewers, selectedInterviewerIds, uuid, pending, net, sheetSlots,
                 sheetInv, isLoading, view, cacheVars>>
  /\ UNCHANGED clientVars

\* app.post('/api/interviewers')
StoreUpsertInterviewer(inv) ==
  /\ ops < MaxCalls
  /\ ops' = ops + 1
  /\ sheetInv' = Upsert(sheetInv, inv.id, inv)
  /\ lastOp' = StoreOp("upsert", "Interviewers", inv.id, inv, sheetInv)
  /\ UNCHANGED <<slots, interviewers, selectedInterviewerIds, uuid, pending, net, sheetSlots,
                 isLoading, viewVars, cacheVars>>
  /\ UNCHANGED clientVars

\* one of the three tables holds any rows
InitStore ==
  /\ \/ /\ sheetSlots \in TablesOf(HeaderRow, SlotRows)
        /\ sheetNotes = <<NoteHeaderRow>>
        /\ sheetInv = <<InvHeaderRow>>
     \/ /\ sheetSlots = <<HeaderRow>>
        /\ sheetNotes \in TablesOf(NoteHeaderRow, NoteRows)
        /\ sheetInv = <<InvHeaderRow>>
     \/ /\ sheetSlots = <<HeaderRow>>
        /\ sheetNotes = <<NoteHeaderRow>>
        /\ sheetInv \in TablesOf(InvHeaderRow, InvRows)
  /\ slots = <<>>
  /\ interviewers = <<>>
  /\ selectedInterviewerIds = {}
  /\ uuid = 0
  /\ pending = {}
  /\ net = {}
  /\ isLoading = FALSE
  /\ ops = 0
  /\ lastOp = NoOp
  /\ view = NoView
  /\ cachedData = NoCache
  /\ lastCacheTime = 0
  /\ now = 0
  /\ gets = {}
  /\ writes = {}
  /\ hist = NoHist
  /\ isSaving = FALSE
  /\ calls = {}
  /\ dayNotes = <<>>

NextStore ==
  \/ \E id \in {1, 2} : StoreDeleteSlot(id)
  \/ \E date \in NoteDates \ {"2025-05-12 "} : StoreDeleteNote(date)
  \/ \E s \in SlotRows, id \in {1, 2, 3} : StorePutSlot([s EXCEPT !.id = id])
  \/ \E n \in {m \in NoteRows : m.date # "2025-05-12 "} : StoreUpsertNote(n)
  \/ \E inv \in InvRows, id \in {1, 2, 3} : StoreUpsertInterviewer([inv EXCEPT !.id = id])

SpecStore == InitStore /\ [][NextStore]_vars

---------------------------------------------------------------------------
(* The server with the read cache (unnamed/part_001).  A GET handler reads   *)
(* the clock and the cache when the request arrives, is suspended while the  *)
(* store answers, and fills the cache when it resumes; a write handler       *)
(* empties the cache when the request arrives and is suspended at its store  *)
(* call.  Handlers of different requests interleave at these points.         *)

MaxRequests == 3
MaxTime == 4

\* const CACHE_TTL = 30 * 1000, in units of ten seconds
CACHE_TTL == 3

WriteKinds ==
  {"appendSlot", "appendBatch", "putSlot", "deleteSlot", "upsertNote", "deleteNote",
   "upsertInterviewer"}

CacheSlotRow(id) ==
  [id |-> id, interviewerId |-> DisplayOwner.id, date |-> "2025-05-12",
   startTime |-> T0900, endTime |-> T0930, isBooked |-> FALSE]

CacheNoteRow == [date |-> "2025-05-12", content |-> "a", color |-> "yellow"]

\* const result = { slots, interviewers, notes } of the rows the store holds now
Snapshot ==
  [slots |-> GetSlots(sheetSlots), interviewers |-> GetInterviewers(sheetInv),
   notes |-> GetNotes(sheetNotes), null |-> FALSE]

\* the rows of the three tabs after the store call of a write handler
StoreEffect(kind) ==
  CASE kind = "appendSlot" ->
         <<Append(sheetSlots, CacheSlotRow(1)), sheetNotes, sheetInv>>
    [] kind = "appendBatch" ->
         <<sheetSlots \o <<CacheSlotRow(1), CacheSlotRow(2)>>, sheetNotes, sheetInv>>
    [] kind = "putSlot" ->
         <<Upsert(sheetSlots, 1, [CacheSlotRow(1) EXCEPT !.endTime = T1000]), sheetNotes,
           sheetInv>>
    [] kind = "deleteSlot" ->
         <<DeleteAll(sheetSlots, 1), sheetNotes, sheetInv>>
    [] kind = "upsertNote" ->
         <<sheetSlots, UpsertNote(sheetNotes, CacheNoteRow), sheetInv>>
    [] kind = "deleteNote" ->
         <<sheetSlots, DeleteNote(sheetNotes, CacheNoteRow.date), sheetInv>>
    [] kind = "upsertInterviewer" ->
         <<sheetSlots, sheetNotes, Upsert(sheetInv, DisplayOwner.id, DisplayOwner)>>

\* what the last step of the server was
CacheOp(op, hit, arrived, data) == [op |-> op, hit |-> hit, arrived |-> arrived, data |-> data]

\* cachedData && (now - lastCacheTime < CACHE_TTL)
CacheFresh == ~cachedData.null /\ now - lastCacheTime < CACHE_TTL

\* the clock moves on
Tick ==
  /\ now < MaxTime
  /\ now' = now + 1
  /\ lastOp' = CacheOp("tick", FALSE, now, NoCache)
  /\ UNCHANGED <<slots, interviewers, selectedInterviewerIds, uuid, pending, net, sheetSlots,
                 sheetInv, isLoading, ops, viewVars, cachedData, lastCacheTime, gets, writes,
                 hist>>
  /\ UNCHANGED clientVars

\* app.get('/api/data') up to `await batchGet`: answered from the cache, or suspended
GetArrive ==
  /\ ops < MaxRequests
  /\ ops' = ops + 1
  /\ IF CacheFresh
     THEN /\ gets' = gets
          /\ hist' = [hist EXCEPT !.wrote = FALSE]
          /\ lastOp' = CacheOp("get", TRUE, now, cachedData)
     ELSE /\ gets' = gets \cup {[n |-> ops + 1, arrived |-> now, read |-> FALSE,
                                 data |-> NoCache]}
          /\ hist' = [hist EXCEPT !.wrote = FALSE]
          /\ lastOp' = CacheOp("get", FALSE, now, NoCache)
  /\ UNCHANGED <<slots, interviewers, selectedInterviewerIds, uuid, pending, net, sheetSlots,
                 sheetInv, isLoading, viewVars, cachedData, lastCacheTime, now, writes>>
  /\ UNCHANGED clientVars

\* the store reads the three ranges for a suspended GET
GetRead(g) ==
  /\ ~g.read
  /\ gets' = (gets \ {g}) \cup {[g EXCEPT !.read = TRUE, !.data = Snapshot]}
  /\ lastOp' = CacheOp("read", FALSE, g.arrived, Snapshot)
  /\ UNCHANGED <<slots, interviewers, selectedInterviewerIds, uuid, pending, net, sheetSlots,
                 sheetInv, isLoading, ops, viewVars, cachedData, lastCacheTime, now, writes,
                 hist>>
  /\ UNCHANGED clientVars

\* the GET handler resumes: cachedData = result; lastCacheTime = now; res.json(result)
GetFinish(g) ==
  /\ g.read
  /\ gets' = gets \ {g}
  /\ cachedData' = g.data
  /\ lastCacheTime' = g.arrived
  /\ hist' = [hist EXCEPT !.answered = @ \cup {[arrived |-> g.arrived, data |-> g.data]}]
  /\ lastOp' = CacheOp("fill", FALSE, g.arrived, g.data)
  /\ UNCHANGED <<slots, interviewers, selectedInterviewerIds, uuid, pending, net, sheetSlots,
                 sheetInv, isLoading, ops, viewVars, now, writes>>
  /\ UNCHANGED clientVars

\* batchGet rejects: the catch answers 500 and the cache is left alone
GetFail(g) ==
  /\ ~g.read
  /\ gets' = gets \ {g}
  /\ lastOp' = CacheOp("getFailed", FALSE, g.arrived, NoCache)
  /\ UNCHANGED <<slots, interviewers, selectedInterviewerIds, uuid, pending, net, sheetSlots,
                 sheetInv, isLoading, ops, viewVars, cachedData, lastCacheTime, now, writes,
                 hist>>
  /\ UNCHANGED clientVars

\* a write handler up to its store call: invalidateCache() comes before the try
WriteArrive(kind) ==
  /\ ops < MaxRequests
  /\ ops' = ops + 1
  /\ cachedData' = NoCache
  /\ lastCacheTime' = 0
  /\ writes' = writes \cup {[n |-> ops + 1, kind |-> kind]}
  /\ hist' = [hist EXCEPT !.answered = {}]
  /\ lastOp' = CacheOp("write", FALSE, now, NoCache)
  /\ UNCHANGED <<slots, interviewers, selectedInterviewerIds, uuid, pending, net, sheetSlots,
                 sheetInv, isLoading, viewVars, now, gets>>
  /\ UNCHANGED clientVars

\* the store call of a write handler succeeds (ok) or fails, and the handler answers
WriteFinish(w, ok) ==
  /\ writes' = writes \ {w}
  /\ sheetSlots' = IF ok THEN StoreEffect(w.kind)[1] ELSE sheetSlots
  /\ sheetNotes' = IF ok THEN StoreEffect(w.kind)[2] ELSE sheetNotes
  /\ sheetInv' = IF ok THEN StoreEffect(w.kind)[3] ELSE sheetInv
  /\ hist' = [answered |-> {}, wrote |-> TRUE]
  /\ lastOp' = CacheOp(IF ok THEN "wrote" ELSE "writeFailed", FALSE, now, NoCache)
  /\ UNCHANGED <<slots, interviewers, selectedInterviewerIds, uuid, pending, net, isLoading,
                 ops, view, cachedData, lastCacheTime, now, gets>>
  /\ UNCHANGED clientVars

InitCache ==
  /\ slots = <<>>
  /\ interviewers = <<>>
  /\ selectedInterviewerIds = {}
  /\ uuid = 0
  /\ pending = {}
  /\ net = {}
  /\ sheetSlots = <<HeaderRow>>
  /\ sheetInv = <<InvHeaderRow>>
  /\ sheetNotes = <<NoteHeaderRow>>
  /\ isLoading = FALSE
  /\ ops = 0
  /\ lastOp = NoOp
  /\ view = NoView
  /\ cachedData = NoCache
  /\ lastCacheTime = 0
  /\ now = 1
  /\ gets = {}
  /\ writes = {}
  /\ hist = NoHist
  /\ isSaving = FALSE
  /\ calls = {}
  /\ dayNotes = <<>>

NextCache ==
  \/ Tick
  \/ GetArrive
  \/ \E g \in gets : GetRead(g)
  \/ \E g \in gets : GetFinish(g)
  \/ \E g \in gets : GetFail(g)
  \/ \E kind \in WriteKinds : WriteArrive(kind)
  \/ \E w \in writes, ok \in BOOLEAN : WriteFinish(w, ok)

SpecCache == InitCache /\ [][NextCache]_vars

---------------------------------------------------------------------------
(* The calls of the client and their answers.  Every handler sets isSaving,  *)
(* possibly waits for ensureInterviewerExists, sends its requests and waits  *)
(* for them; what it does when a request is rejected or answered with an     *)
(* error status is its catch and its finally block.  What the handlers do to *)
(* the slots is left out here.                                               *)

\* the handlers that send write requests
Handlers == {"saveSlot", "deleteSlot", "batchAdd", "aiImport", "saveNote", "deleteNote"}

\* the handlers that await ensureInterviewerExists for a new name
CreatesInterviewer(kind) == kind \in {"saveSlot", "batchAdd", "aiImport"}

\* the handlers that may send two requests at once, inside Promise.all
SendsTwo(kind) == kind \in {"saveSlot", "deleteSlot"}

\* the handlers whose catch block calls alert
Alerts(kind) == kind \in {"saveSlot", "batchAdd", "aiImport"}

\* a fetch is answered 2xx, answered with an error status, or rejected
Outcomes == {"ok", "status", "rejected"}

\* what the last step was: a request of a handler answered with an outcome,
\* and whether the handler then called alert
CallOp(op, kind, outcome, alerted) ==
  [op |-> op, kind |-> kind, outcome |-> outcome, alerted |-> alerted]

\* the call of fetchData() made by a catch block
FetchCall(n) == [n |-> n, kind |-> "fetchData", stage |-> "main", main |-> 1, out |-> 1,
                 done |-> FALSE]

\* a handler is called: setIsSaving(true), then its first request is sent, which
\* is POST /api/interviewers when the name is new
StartCall(kind, newName, k) ==
  /\ ops < MaxCalls
  /\ ops' = ops + 1
  /\ newName => CreatesInterviewer(kind)
  /\ k = 2 => SendsTwo(kind)
  /\ isSaving' = TRUE
  /\ calls' = calls \cup {[n |-> 10 * (ops + 1), kind |-> kind,
                           stage |-> IF newName THEN "inv" ELSE "main",
                           main |-> k, out |-> IF newName THEN 1 ELSE k, done |-> FALSE]}
  /\ lastOp' = CallOp("call", kind, "", FALSE)
  /\ UNCHANGED <<slots, interviewers, selectedInterviewerIds, uuid, pending, net, sheetSlots,
                 sheetInv, isLoading, viewVars, cacheVars, dayNotes>>

\* ensureInterviewerExists returns, whatever the answer was: its catch only logs;
\* the handler goes on and sends its requests
AnswerInterviewer(c, outcome) ==
  /\ c.stage = "inv"
  /\ calls' = (calls \ {c}) \cup {[c EXCEPT !.stage = "main", !.out = c.main]}
  /\ lastOp' = CallOp("answered", "ensureInterviewer", outcome, FALSE)
  /\ UNCHANGED <<slots, interviewers, selectedInterviewerIds, uuid, pending, net, sheetSlots,
                 sheetInv, isLoading, ops, viewVars, cacheVars, isSaving, dayNotes>>

\* a request of a handler is answered.  Rejected: the catch block runs (alert
\* in three handlers, fetchData() in all), then setIsSaving(false).  Otherwise
\* the handler goes on when all its requests are answered, without looking at
\* the status, and ends with setIsSaving(false).
AnswerRequest(c, outcome) ==
  /\ c.stage = "main"
  /\ c.kind \in Handlers
  /\ LET left == [c EXCEPT !.out = @ - 1, !.done = c.done \/ outcome = "rejected" \/ c.out = 1]
         caught == ~c.done /\ outcome = "rejected"
         ended == ~c.done /\ (outcome = "rejected" \/ c.out = 1)
     IN /\ calls' = ((calls \ {c}) \cup (IF left.out = 0 THEN {} ELSE {left}))
                      \cup (IF caught THEN {FetchCall(c.n + c.out)} ELSE {})
        /\ isSaving' = IF ended THEN FALSE ELSE isSaving
        /\ isLoading' = IF caught THEN TRUE ELSE isLoading
        /\ lastOp' = CallOp("answered", c.kind, outcome, caught /\ Alerts(c.kind))
  /\ UNCHANGED <<slots, interviewers, selectedInterviewerIds, uuid, pending, net, sheetSlots,
                 sheetInv, ops, viewVars, cacheVars, dayNotes>>

\* the GET of a fetchData() called by a catch block is answered: the state is
\* set from the answer, or the catch logs (showSyncState is false); finally
\* setIsLoading(false)
AnswerFetch(c, outcome) ==
  /\ c.kind = "fetchData"
  /\ calls' = calls \ {c}
  /\ isLoading' = FALSE
  /\ lastOp' = CallOp("fetched", "fetchData", outcome, FALSE)
  /\ UNCHANGED <<slots, interviewers, selectedInterviewerIds, uuid, pending, net, sheetSlots,
                 sheetInv, ops, viewVars, cacheVars, isSaving, dayNotes>>

InitCalls ==
  /\ slots = <<>>
  /\ interviewers = <<>>
  /\ selectedInterviewerIds = {}
  /\ uuid = 0
  /\ pending = {}
  /\ net = {}
  /\ sheetSlots = <<HeaderRow>>
  /\ sheetInv = <<InvHeaderRow>>
  /\ sheetNotes = <<NoteHeaderRow>>
  /\ isLoading = FALSE
  /\ ops = 0
  /\ lastOp = NoOp
  /\ view = NoView
  /\ cachedData = NoCache
  /\ lastCacheTime = 0
  /\ now = 0
  /\ gets = {}
  /\ writes = {}
  /\ hist = NoHist
  /\ isSaving = FALSE
  /\ calls = {}
  /\ dayNotes = <<>>

NextCalls ==
  \/ \E kind \in Handlers, newName \in BOOLEAN, k \in {1, 2} : StartCall(kind, newName, k)
  \/ \E c \in calls, outcome \in Outcomes : AnswerInterviewer(c, outcome)
  \/ \E c \in calls, outcome \in Outcomes : AnswerRequest(c, outcome)
  \/ \E c \in calls, outcome \in Outcomes : AnswerFetch(c, outcome)

SpecCalls == InitCalls /\ [][NextCalls]_vars

---------------------------------------------------------------------------
(* The client and the store with requests that fail: a request is rejected,  *)
(* the catch block of its handler calls fetchData(), and the answer of that  *)
(* GET replaces the local state.                                             *)

\* fetchData: validNotes, with String(n.color || 'yellow') checked against validColors
validNotes(rawNotes) ==
  [i \in 1..Len(rawNotes) |->
     [rawNotes[i] EXCEPT !.color =
        IF @ \in {"yellow", "blue", "green", "red", "purple"} THEN @ ELSE "yellow"]]

\* a request of a handler is rejected before it reaches the server; the catch
\* block calls fetchData(), which starts with setIsLoading(true).  Each
\* rejection is taken as the first of its handler.
RejectRequest(q) ==
  /\ calls = {}
  /\ net' = net \ {q}
  /\ calls' = {FetchCall(1)}
  /\ isLoading' = TRUE
  /\ lastOp' = [NoOp EXCEPT !.op = "rejected", !.id = q.id, !.sent = {q.kind}]
  /\ UNCHANGED <<slots, interviewers, selectedInterviewerIds, uuid, pending, sheetSlots,
                 sheetInv, ops, viewVars, cacheVars, isSaving, dayNotes>>

\* the GET of that fetchData() is answered with the tables
RefetchData(c) ==
  LET fetchedInterviewers == GetInterviewers(sheetInv)
      fetchedIds == {fetchedInterviewers[i].id : i \in 1..Len(fetchedInterviewers)}
      existingKnownIds == {interviewers[i].id : i \in 1..Len(interviewers)}
  IN /\ c.kind = "fetchData"
     /\ calls' = calls \ {c}
     /\ slots' = safeSlots(GetSlots(sheetSlots))
     /\ interviewers' = fetchedInterviewers
     /\ dayNotes' = validNotes(GetNotes(sheetNotes))
     /\ selectedInterviewerIds' =
          IF selectedInterviewerIds = {} THEN fetchedIds
          ELSE selectedInterviewerIds \cup (fetchedIds \ existingKnownIds)
     /\ isLoading' = FALSE
     /\ lastOp' = [NoOp EXCEPT !.op = "refetch"]
     /\ UNCHANGED <<uuid, pending, net, sheetSlots, sheetInv, ops, viewVars, cacheVars,
                    isSaving>>

NextFail ==
  \/ Next
  \/ \E q \in net : RejectRequest(q)
  \/ \E c \in calls : RefetchData(c)

SpecFail == Init /\ [][NextFail]_vars

---------------------------------------------------------------------------
(* The persons: slot saves, batch adds and AI imports that overlap.  A batch *)
(* add and an AI import work on a copy of the person list of the render they *)
(* were called in, wait for ensureInterviewerExists when the name is new,    *)
(* and only then call setInterviewers with that copy.  An AI import of one   *)
(* parsed slot and a batch add of one date and one range are modelled.       *)

BatchKinds == {"batchAdd", "aiImport"}

\* the one range a batch add or an AI import brings
BatchData == [NoData EXCEPT !.date = "2025-05-12", !.startTime = T0900, !.endTime = T0930]

\* handleBatchManualConfirm / handleAIScheduleConfirm from setInterviewers on:
\* the state is set from the copy, the new slot is appended and POSTed
BatchRest(kind, currentInterviewers, inv, isNew, closureSelected) ==
  LET r == CreateResult(slots, BatchData, inv.id, uuid)
      batch == {Request("BATCH", NoId, q.rows) : q \in r.reqs}
  IN /\ Len(r.slots) <= MaxSlots
     /\ r.uuid <= MaxUUID
     /\ Cardinality(net \cup batch) <= MaxInflight
     /\ interviewers' = currentInterviewers
     /\ slots' = r.slots
     /\ uuid' = r.uuid
     /\ selectedInterviewerIds' =
          IF isNew \/ (kind = "batchAdd" /\ inv.id \notin closureSelected)
          THEN selectedInterviewerIds \cup {inv.id}
          ELSE selectedInterviewerIds
     /\ net' = net \cup batch

\* a batch add or an AI import with a name that the person list of this render
\* does not hold: up to `await ensureInterviewerExists(inv)`
BatchStartNew(kind, interviewerName) ==
  LET inv == [id |-> generateUUID(uuid + 1), name |-> Trim(interviewerName),
              color |-> Len(interviewers) % NumColors]
  IN /\ ~isLoading
     /\ ops < MaxCalls
     /\ ops' = ops + 1
     /\ FindInterviewer(interviewers, Trim(interviewerName)) = 0
     /\ uuid < MaxUUID
     /\ uuid' = uuid + 1
     /\ isSaving' = TRUE
     /\ calls' = calls \cup {[n |-> ops + 1, kind |-> kind, inv |-> inv,
                              currentInterviewers |-> Append(interviewers, inv),
                              closureSelected |-> selectedInterviewerIds,
                              answered |-> FALSE]}
     /\ lastOp' = [NoOp EXCEPT !.op = "batchAwait", !.fresh = {inv.id}, !.sent = {"INV"}]
     /\ UNCHANGED <<slots, interviewers, selectedInterviewerIds, pending, net, sheetSlots,
                    sheetInv, isLoading, viewVars, cacheVars, dayNotes>>

\* a batch add or an AI import with a name of the person list: nothing to wait for
BatchKnown(kind, interviewerName) ==
  LET k == FindInterviewer(interviewers, Trim(interviewerName))
  IN /\ ~isLoading
     /\ ops < MaxCalls
     /\ ops' = ops + 1
     /\ k # 0
     /\ isSaving' = TRUE
     /\ BatchRest(kind, interviewers, interviewers[k], FALSE, selectedInterviewerIds)
     /\ lastOp' = [NoOp EXCEPT !.op = "batch", !.fresh = {uuid + 1}, !.sent = {"BATCH"}]
     /\ UNCHANGED <<pending, sheetSlots, sheetInv, isLoading, viewVars, cacheVars, calls,
                    dayNotes>>

\* app.post('/api/interviewers') for the request of a suspended batch add or AI import
BatchInterviewer(c) ==
  /\ ~c.answered
  /\ sheetInv' = Upsert(sheetInv, c.inv.id, c.inv)
  /\ calls' = (calls \ {c}) \cup {[c EXCEPT !.answered = TRUE]}
  /\ lastOp' = [NoOp EXCEPT !.op = "server"]
  /\ UNCHANGED <<slots, interviewers, selectedInterviewerIds, uuid, pending, net, sheetSlots,
                 isLoading, ops, viewVars, cacheVars, isSaving, dayNotes>>

\* the batch add or AI import resumed after `await ensureInterviewerExists(inv)`
BatchResume(c) ==
  /\ c.answered
  /\ calls' = calls \ {c}
  /\ BatchRest(c.kind, c.currentInterviewers, c.inv, TRUE, c.closureSelected)
  /\ lastOp' = [NoOp EXCEPT !.op = "batch", !.fresh = {uuid + 1}, !.sent = {"BATCH"}]
  /\ UNCHANGED <<pending, sheetSlots, sheetInv, isLoading, ops, viewVars, cacheVars,
                 isSaving, dayNotes>>

InitPeople ==
  /\ slots = <<>>
  /\ interviewers = <<>>
  /\ selectedInterviewerIds = {}
  /\ uuid = 0
  /\ pending = {}
  /\ net = {}
  /\ sheetSlots = <<HeaderRow>>
  /\ sheetInv = <<InvHeaderRow>>
  /\ sheetNotes = <<NoteHeaderRow>>
  /\ isLoading = FALSE
  /\ ops = 0
  /\ lastOp = NoOp
  /\ view = NoView
  /\ cachedData = NoCache
  /\ lastCacheTime = 0
  /\ now = 0
  /\ gets = {}
  /\ writes = {}
  /\ hist = NoHist
  /\ isSaving = FALSE
  /\ calls = {}
  /\ dayNotes = <<>>

NextPeople ==
  \/ \E n \in SyncNames : HandleSaveSlot([BatchData EXCEPT !.isBooked = FALSE], n)
  \/ \E n \in SyncNames : HandleSaveSlotNew([BatchData EXCEPT !.isBooked = FALSE], n)
  \/ \E p \in pending : ServerInterviewer(p)
  \/ \E p \in pending : ResumeSaveSlot(p)
  \/ \E kind \in BatchKinds, n \in SyncNames : BatchStartNew(kind, n)
  \/ \E kind \in BatchKinds, n \in SyncNames : BatchKnown(kind, n)
  \/ \E c \in calls : BatchInterviewer(c)
  \/ \E c \in calls : BatchResume(c)
  \/ \E q \in net : ServerAppend(q)

SpecPeople == InitPeople /\ [][NextPeople]_vars

---------------------------------------------------------------------------
(* The slot handlers of server.js call by call.  A handler awaits the read  *)
(* of column A (findRowIndexById) and then awaits the write at the position *)
(* it computed; between the two calls the handler of another request runs.  *)
(* `writes` holds the handlers that are between two calls.                  *)

\* a row of the grid below the data
BlankRow == [id |-> NoId, interviewerId |-> NoId, date |-> "", startTime |-> Undef,
             endTime |-> Undef, isBooked |-> FALSE]

\* the rows the Slots tab starts with, and the rows a PUT brings
RaceRows ==
  [id : {1, 2}, interviewerId : {DisplayOwner.id}, date : Dates,
   startTime : {T0900}, endTime : {T0930}, isBooked : {FALSE}]

PutRows ==
  [id : {1, 2}, interviewerId : {DisplayOwner.id}, date : Dates,
   startTime : {T0900}, endTime : {T1000}, isBooked : {FALSE}]

\* column A, trimmed, of the row at a 0-based index
RowKeyAt(rows, rowIndex) ==
  IF rowIndex < Len(rows) THEN TrimId(rows[rowIndex + 1].id) ELSE NoId

\* values.update on A{rowIndex + 1}:F{rowIndex + 1}, also below the last row
WriteRow(rows, rowIndex, row) ==
  IF rowIndex < Len(rows) THEN UpdateRow(rows, rowIndex, row)
  ELSE rows \o [i \in 1..(rowIndex - Len(rows)) |-> BlankRow] \o <<row>>

\* deleteDimension ROWS [rowIndex, rowIndex + 1), also below the last row
DeleteRowAt(rows, rowIndex) ==
  IF rowIndex < Len(rows) THEN DeleteRow(rows, rowIndex) ELSE rows

\* a positional write: the key scanned for, the key of the row it landed on,
\* and whether the tab changed between the scan and the write
RaceOp(w, op) ==
  [op |-> op, n |-> w.n, key |-> TrimId(w.id), hit |-> RowKeyAt(sheetSlots, w.rowIndex),
   moved |-> sheetSlots # w.seen]

\* a PUT or DELETE /api/slots/:id arrives
SlotRequest(kind, id, s) ==
  /\ ops < MaxCalls
  /\ ops' = ops + 1
  /\ writes' = writes \cup {[n |-> ops + 1, kind |-> kind, id |-> id, row |-> s,
                             stage |-> "scan", rowIndex |-> -1, seen |-> <<>>]}
  /\ lastOp' = [op |-> "arrive", n |-> ops + 1, key |-> id, hit |-> NoId, moved |-> FALSE]
  /\ UNCHANGED <<slots, interviewers, selectedInterviewerIds, uuid, pending, net, sheetSlots,
                 sheetInv, isLoading, view, sheetNotes, cachedData, lastCacheTime, now, gets,
                 hist, clientVars>>

\* `const rowIndex = await findRowIndexById('Slots', id)`; a DELETE that finds
\* nothing answers
ScanRows(w) ==
  LET rowIndex == findRowIndexById(sheetSlots, w.id)
  IN /\ w.stage = "scan"
     /\ writes' =
          IF rowIndex = -1 /\ w.kind = "DELETE" THEN writes \ {w}
          ELSE (writes \ {w}) \cup
                 {[w EXCEPT !.stage = IF rowIndex = -1 THEN "append" ELSE "write",
                            !.rowIndex = rowIndex, !.seen = sheetSlots]}
     /\ lastOp' = [op |-> "scan", n |-> w.n, key |-> w.id, hit |-> NoId, moved |-> FALSE]
     /\ UNCHANGED <<slots, interviewers, selectedInterviewerIds, uuid, pending, net,
                    sheetSlots, sheetInv, isLoading, ops, view, sheetNotes, cachedData,
                    lastCacheTime, now, gets, hist, clientVars>>

\* PUT: `sheets.spreadsheets.values.update` on the row computed, then the answer
UpdateValues(w) ==
  /\ w.kind = "PUT"
  /\ w.stage = "write"
  /\ Len(WriteRow(sheetSlots, w.rowIndex, w.row)) <= MaxStoreRows + 2
  /\ sheetSlots' = WriteRow(sheetSlots, w.rowIndex, w.row)
  /\ writes' = writes \ {w}
  /\ lastOp' = RaceOp(w, "update")
  /\ UNCHANGED <<slots, interviewers, selectedInterviewerIds, uuid, pending, net, sheetInv,
                 isLoading, ops, view, sheetNotes, cachedData, lastCacheTime, now, gets,
                 hist, clientVars>>

\* PUT of an id that the scan did not find: `sheets.spreadsheets.values.append`
AppendValues(w) ==
  /\ w.kind = "PUT"
  /\ w.stage = "append"
  /\ Len(sheetSlots) < MaxStoreRows + 2
  /\ sheetSlots' = Append(sheetSlots, w.row)
  /\ writes' = writes \ {w}
  /\ lastOp' = [op |-> "append", n |-> w.n, key |-> w.id, hit |-> NoId, moved |-> FALSE]
  /\ UNCHANGED <<slots, interviewers, selectedInterviewerIds, uuid, pending, net, sheetInv,
                 isLoading, ops, view, sheetNotes, cachedData, lastCacheTime, now, gets,
                 hist, clientVars>>

\* DELETE: `deleteDimension` on the row computed, then the loop scans again
DeleteDimension(w) ==
  /\ w.kind = "DELETE"
  /\ w.stage = "write"
  /\ sheetSlots' = DeleteRowAt(sheetSlots, w.rowIndex)
  /\ writes' = (writes \ {w}) \cup {[w EXCEPT !.stage = "scan", !.rowIndex = -1,
                                             !.seen = <<>>]}
  /\ lastOp' = RaceOp(w, "delete")
  /\ UNCHANGED <<slots, interviewers, selectedInterviewerIds, uuid, pending, net, sheetInv,
                 isLoading, ops, view, sheetNotes, cachedData, lastCacheTime, now, gets,
                 hist, clientVars>>

InitRace ==
  /\ sheetSlots \in TablesOf(HeaderRow, RaceRows)
  /\ sheetNotes = <<NoteHeaderRow>>
  /\ sheetInv = <<InvHeaderRow>>
  /\ slots = <<>>
  /\ interviewers = <<>>
  /\ selectedInterviewerIds = {}
  /\ uuid = 0
  /\ pending = {}
  /\ net = {}
  /\ isLoading = FALSE
  /\ ops = 0
  /\ lastOp = [op |-> "none", n |-> 0, key |-> NoId, hit |-> NoId, moved |-> FALSE]
  /\ view = NoView
  /\ cachedData = NoCache
  /\ lastCacheTime = 0
  /\ now = 0
  /\ gets = {}
  /\ writes = {}
  /\ hist = NoHist
  /\ isSaving = FALSE
  /\ calls = {}
  /\ dayNotes = <<>>

NextRace ==
  \/ \E kind \in {"PUT", "DELETE"}, s \in PutRows :
       SlotRequest(kind, s.id, IF kind = "PUT" THEN s ELSE BlankRow)
  \/ \E w \in writes : ScanRows(w)
  \/ \E w \in writes : UpdateValues(w)
  \/ \E w \in writes : AppendValues(w)
  \/ \E w \in writes : DeleteDimension(w)

SpecRace == InitRace /\ [][NextRace]_vars

---------------------------------------------------------------------------
(* The client and the store after the first load, with no call that fails   *)
(* and no further fetchData: the handlers of one client and the requests    *)
(* they send, answered in any order.                                        *)

InitSync ==
  /\ slots = <<>>
  /\ interviewers = <<>>
  /\ selectedInterviewerIds = {}
  /\ uuid = 0
  /\ pending = {}
  /\ net = {}
  /\ sheetSlots = <<HeaderRow>>
  /\ sheetInv = <<InvHeaderRow>>
  /\ sheetNotes = <<NoteHeaderRow>>
  /\ isLoading = FALSE
  /\ ops = 0
  /\ lastOp = NoOp
  /\ view = NoView
  /\ cachedData = NoCache
  /\ lastCacheTime = 0
  /\ now = 0
  /\ gets = {}
  /\ writes = {}
  /\ hist = NoHist
  /\ isSaving = FALSE
  /\ calls = {}
  /\ dayNotes = <<>>

NextSync ==
  \/ \E d \in SyncData, n \in SyncNames : HandleSaveSlot(d, n)
  \/ \E d \in SyncData, n \in SyncNames : HandleSaveSlotNew(d, n)
  \/ \E p \in pending : ServerInterviewer(p)
  \/ \E p \in pending : ResumeSaveSlot(p)
  \/ \E id \in 1..MaxUUID, a \in DeleteArgs(SyncTimes) : HandleDeleteSlot(id, a[1], a[2])
  \/ \E q \in net : ServerAppend(q)
  \/ \E q \in net : ServerPut(q)
  \/ \E q \in net : ServerDelete(q)

SpecSync == InitSync /\ [][NextSync]_vars

---------------------------------------------------------------------------
(* The notes: handleSaveNote and handleDeleteNote on the local notes, the   *)
(* requests they send, and the note handlers of server.js.  No call fails.  *)

\* the dates, the texts and the colours a note is saved with
SavedDates == {"2025-05-12", "2025-05-13"}

SavedContents == {"a", "", " "}

SavedColors == {"yellow", "blue"}

\* content.trim()
TrimContent(content) == IF content = " " THEN "" ELSE content

\* prev.filter(n => n.date !== date)
WithoutDate(prev, date) == SelectSeq(prev, LAMBDA n : n.date # date)

\* handleSaveNote: the optimistic update, then POST /api/notes with newNote
HandleSaveNote(date, content, color) ==
  LET newNote == [date |-> date, content |-> content, color |-> color]
      filtered == WithoutDate(dayNotes, date)
  IN /\ ops < MaxOps
     /\ ops' = ops + 1
     /\ Cardinality(net) < MaxInflight
     /\ isSaving' = TRUE
     /\ dayNotes' = IF TrimContent(content) # "" THEN Append(filtered, newNote) ELSE filtered
     /\ net' = net \cup {Request("NOTE", ops + 1, <<newNote>>)}
     /\ lastOp' = [op |-> "saveNote", date |-> date, content |-> content]
     /\ UNCHANGED <<slots, interviewers, selectedInterviewerIds, uuid, pending, sheetSlots,
                    sheetInv, isLoading, viewVars, cacheVars, calls>>

\* handleDeleteNote, called by the delete button that the editor shows for a
\* date with a local note: the optimistic delete, then DELETE /api/notes/:date
HandleDeleteNote(date) ==
  /\ ops < MaxOps
  /\ ops' = ops + 1
  /\ Cardinality(net) < MaxInflight
  /\ \E i \in 1..Len(dayNotes) : dayNotes[i].date = date
  /\ isSaving' = TRUE
  /\ dayNotes' = WithoutDate(dayNotes, date)
  /\ net' = net \cup {Request("NOTEDELETE", ops + 1,
                              <<[date |-> date, content |-> "", color |-> ""]>>)}
  /\ lastOp' = [op |-> "deleteNote", date |-> date, content |-> ""]
  /\ UNCHANGED <<slots, interviewers, selectedInterviewerIds, uuid, pending, sheetSlots,
                 sheetInv, isLoading, viewVars, cacheVars, calls>>

\* app.post('/api/notes') and the handler's finally
ServerNote(q) ==
  /\ q.kind = "NOTE"
  /\ Len(UpsertNote(sheetNotes, q.rows[1])) <= MaxRows
  /\ sheetNotes' = UpsertNote(sheetNotes, q.rows[1])
  /\ net' = net \ {q}
  /\ isSaving' = FALSE
  /\ lastOp' = [op |-> "noteSaved", date |-> q.rows[1].date, content |-> q.rows[1].content]
  /\ UNCHANGED <<slots, interviewers, selectedInterviewerIds, uuid, pending, sheetSlots,
                 sheetInv, isLoading, ops, view, cacheVars, calls, dayNotes>>

\* app.delete('/api/notes/:date') and the handler's finally
ServerNoteDelete(q) ==
  /\ q.kind = "NOTEDELETE"
  /\ sheetNotes' = DeleteNote(sheetNotes, q.rows[1].date)
  /\ net' = net \ {q}
  /\ isSaving' = FALSE
  /\ lastOp' = [op |-> "noteDeleted", date |-> q.rows[1].date, content |-> ""]
  /\ UNCHANGED <<slots, interviewers, selectedInterviewerIds, uuid, pending, sheetSlots,
                 sheetInv, isLoading, ops, view, cacheVars, calls, dayNotes>>

InitNotes ==
  /\ slots = <<>>
  /\ interviewers = <<>>
  /\ selectedInterviewerIds = {}
  /\ uuid = 0
  /\ pending = {}
  /\ net = {}
  /\ sheetSlots = <<HeaderRow>>
  /\ sheetInv = <<InvHeaderRow>>
  /\ sheetNotes = <<NoteHeaderRow>>
  /\ isLoading = FALSE
  /\ ops = 0
  /\ lastOp = [op |-> "none", date |-> "", content |-> ""]
  /\ view = NoView
  /\ cachedData = NoCache
  /\ lastCacheTime = 0
  /\ now = 0
  /\ gets = {}
  /\ writes = {}
  /\ hist = NoHist
  /\ isSaving = FALSE
  /\ calls = {}
  /\ dayNotes = <<>>

NextNotes ==
  \/ \E date \in SavedDates, content \in SavedContents, color \in SavedColors :
       HandleSaveNote(date, content, color)
  \/ \E date \in SavedDates : HandleDeleteNote(date)
  \/ \E q \in net : ServerNote(q)
  \/ \E q \in net : ServerNoteDelete(q)

SpecNotes == InitNotes /\ [][NextNotes]_vars

---------------------------------------------------------------------------
(* Properties.  lastOp holds the last handler call: its arguments and the    *)
(* slot that slots.find gave it, so that a state can be compared with the    *)
(* request that produced it; a step is compared with the list before it.     *)

\* minutes since midnight of a well-formed "HH:MM"
Clock(t) == (t[1] - 48) * 600 + (t[2] - 48) * 60 + (t[4] - 48) * 10 + (t[5] - 48)

\* the half-open ranges [a1, a2) and [b1, b2) share a sub-interval
Overlap(a1, a2, b1, b2) == (IF a1 > b1 THEN a1 ELSE b1) < (IF a2 < b2 THEN a2 ELSE b2)

From(s) == Clock(s.startTime)

To(s) == Clock(s.endTime)

IdsOf(seq) == {seq[i].id : i \in 1..Len(seq)}

IndexesOf(seq, ids) == {i \in 1..Len(seq) : seq[i].id \in ids}

\* seq without its elements of that id, the others in their order
RECURSIVE Without(_, _)
Without(seq, id) ==
  IF seq = <<>> THEN <<>>
  ELSE IF Head(seq).id = id THEN Without(Tail(seq), id)
  ELSE <<Head(seq)>> \o Without(Tail(seq), id)

\* op is a resize of an existing slot [S,E] to [s,e], S <= s < e <= E, s > S or e < E
SplitRequested(op) ==
  /\ op.op = "save"
  /\ op.d.id # NoId
  /\ op.pre # NoSlot
  /\ From(op.pre) <= From(op.d)
  /\ From(op.d) < To(op.d)
  /\ To(op.d) <= To(op.pre)
  /\ (From(op.d) > From(op.pre) \/ To(op.d) < To(op.pre))

\* op is a delete of an existing slot with both bounds of the target given
DeleteRequested(op) ==
  /\ op.op = "delete"
  /\ op.pre # NoSlot
  /\ op.targetStart \in Times
  /\ op.targetEnd \in Times

\* C1: no two slots of the same interviewer on the same date overlap in time
C1_PairwiseDisjoint ==
  \A i, j \in 1..Len(slots) :
    (i < j /\ slots[i].interviewerId = slots[j].interviewerId /\ slots[i].date = slots[j].date)
      => ~Overlap(From(slots[i]), To(slots[i]), From(slots[j]), To(slots[j]))

\* C2: after a resize of [S,E] to a contained [s,e], the list holds the main
\* slot [s,e] under the edited id, a head [S,s) exactly when s > S and a tail
\* [e,E) exactly when e < E, and nothing else from that slot; the pieces have
\* positive duration, are pairwise disjoint and cover [S,E] and nothing more
C2_SplitConservation ==
  SplitRequested(lastOp) =>
    LET S == From(lastOp.pre)
        E == To(lastOp.pre)
        s == From(lastOp.d)
        e == To(lastOp.d)
        main == IndexesOf(slots, {lastOp.d.id})
        rest == IndexesOf(slots, lastOp.fresh)
        pieces == main \cup rest
    IN /\ Cardinality(main) = 1
       /\ \A i \in main : From(slots[i]) = s /\ To(slots[i]) = e
       /\ (s > S) <=> (\E i \in rest : From(slots[i]) = S /\ To(slots[i]) = s)
       /\ (e < E) <=> (\E i \in rest : From(slots[i]) = e /\ To(slots[i]) = E)
       /\ Cardinality(rest) = (IF s > S THEN 1 ELSE 0) + (IF e < E THEN 1 ELSE 0)
       /\ \A i \in pieces : From(slots[i]) < To(slots[i])
       /\ \A i, j \in pieces :
            i # j => ~Overlap(From(slots[i]), To(slots[i]), From(slots[j]), To(slots[j]))
       /\ \A t \in S..(E - 1) : \E i \in pieces : From(slots[i]) <= t /\ t < To(slots[i])
       /\ \A i \in pieces : S <= From(slots[i]) /\ To(slots[i]) <= E

\* a resize that leaves both a head and a tail
C2_Witness ==
  /\ SplitRequested(lastOp)
  /\ From(lastOp.d) > From(lastOp.pre)
  /\ To(lastOp.d) < To(lastOp.pre)
  /\ Cardinality(IndexesOf(slots, lastOp.fresh)) = 2

\* C3: after a resize that splits a slot, every remainder is booked exactly
\* when the slot was booked before the edit
C3_RemaindersInheritBooked ==
  SplitRequested(lastOp) =>
    \A i \in IndexesOf(slots, lastOp.fresh) : slots[i].isBooked = lastOp.pre.isBooked

\* C4: in every step no two slots of the resulting list have the same id, and
\* a resize that splits a slot leaves the edited id on the requested range with
\* the requested booked value and gives every other slot it adds an id that
\* was not in the list before
C4_UniqueIds ==
  [][/\ \A i, j \in 1..Len(slots') : i # j => slots'[i].id # slots'[j].id
     /\ SplitRequested(lastOp') =>
          /\ \E i \in 1..Len(slots') : slots'[i].id = lastOp'.d.id
          /\ \A i \in 1..Len(slots') :
               IF slots'[i].id = lastOp'.d.id
               THEN /\ slots'[i].startTime = lastOp'.d.startTime
                    /\ slots'[i].endTime = lastOp'.d.endTime
                    /\ slots'[i].isBooked = lastOp'.d.isBooked
               ELSE (\A j \in 1..Len(slots) : slots[j] # slots'[i])
                      => slots'[i].id \notin IdsOf(slots)]_vars

\* C5: a delete whose target lies strictly inside the slot, pStart < targetStart
\* and targetEnd < pEnd, leaves the slot as [pStart,targetStart) under its id,
\* adds exactly one slot, [targetEnd,pEnd) with an id the list did not hold and
\* the parent's owner, date and booked value, changes no other slot, and
\* neither of the two parts overlaps [targetStart,targetEnd)
C5_DeleteMiddle ==
  [][(/\ DeleteRequested(lastOp')
      /\ From(lastOp'.pre) < Clock(lastOp'.targetStart)
      /\ Clock(lastOp'.targetEnd) < To(lastOp'.pre)) =>
        LET parent == lastOp'.pre
            added == {i \in 1..Len(slots') : slots'[i].id \notin IdsOf(slots)}
            parts == IndexesOf(slots', {lastOp'.id}) \cup added
        IN /\ Len(slots') = Len(slots) + 1
           /\ Cardinality(added) = 1
           /\ \A i \in 1..Len(slots) :
                slots'[i] = IF slots[i].id = lastOp'.id
                            THEN [parent EXCEPT !.endTime = lastOp'.targetStart]
                            ELSE slots[i]
           /\ \A i \in added :
                /\ slots'[i].id # NoId
                /\ slots'[i] = [parent EXCEPT !.id = slots'[i].id,
                                              !.startTime = lastOp'.targetEnd]
           /\ \A i \in parts :
                ~Overlap(From(slots'[i]), To(slots'[i]),
                         Clock(lastOp'.targetStart), Clock(lastOp'.targetEnd))]_vars

\* the middle of a slot has been deleted: both parts are in the list
C5_Witness ==
  /\ DeleteRequested(lastOp)
  /\ From(lastOp.pre) < Clock(lastOp.targetStart)
  /\ Clock(lastOp.targetStart) < Clock(lastOp.targetEnd)
  /\ Clock(lastOp.targetEnd) < To(lastOp.pre)
  /\ \E i, j \in 1..Len(slots) :
       /\ slots[i].id = lastOp.id
       /\ slots[i].endTime = lastOp.targetStart
       /\ slots[j].id \in lastOp.fresh
       /\ slots[j].startTime = lastOp.targetEnd

\* C6: a delete with targetStart = pStart and targetEnd < pEnd moves the start
\* of the slot to targetEnd, one with targetEnd = pEnd and targetStart > pStart
\* moves its end to targetStart; in both the slot keeps its id, the list keeps
\* its length and its ids, and no other slot changes
C6_TrimKeepsId ==
  [][/\ (/\ DeleteRequested(lastOp')
         /\ Clock(lastOp'.targetStart) = From(lastOp'.pre)
         /\ Clock(lastOp'.targetEnd) < To(lastOp'.pre)) =>
           /\ Len(slots') = Len(slots)
           /\ slots' = [i \in 1..Len(slots) |->
                          IF slots[i].id = lastOp'.id
                          THEN [slots[i] EXCEPT !.startTime = lastOp'.targetEnd]
                          ELSE slots[i]]
     /\ (/\ DeleteRequested(lastOp')
         /\ Clock(lastOp'.targetEnd) = To(lastOp'.pre)
         /\ Clock(lastOp'.targetStart) > From(lastOp'.pre)) =>
           /\ Len(slots') = Len(slots)
           /\ slots' = [i \in 1..Len(slots) |->
                          IF slots[i].id = lastOp'.id
                          THEN [slots[i] EXCEPT !.endTime = lastOp'.targetStart]
                          ELSE slots[i]]]_vars

\* the head of a slot has been trimmed, another slot being in the list
C6_Witness ==
  /\ DeleteRequested(lastOp)
  /\ Clock(lastOp.targetStart) = From(lastOp.pre)
  /\ Clock(lastOp.targetStart) < Clock(lastOp.targetEnd)
  /\ Clock(lastOp.targetEnd) < To(lastOp.pre)
  /\ Len(slots) >= 2
  /\ \E i \in 1..Len(slots) :
       /\ slots[i].id = lastOp.id
       /\ slots[i].startTime = lastOp.targetEnd
       /\ slots[i].endTime = lastOp.pre.endTime

\* op is a delete of an existing slot with its own range as the target, or with no target
FullDeleteRequested(op) ==
  /\ op.op = "delete"
  /\ op.pre # NoSlot
  /\ \/ op.targetStart \in {Empty, Undef} /\ op.targetEnd \in {Empty, Undef}
     \/ /\ DeleteRequested(op)
        /\ Clock(op.targetStart) = From(op.pre)
        /\ Clock(op.targetEnd) = To(op.pre)

\* C7: a delete with the slot's own range as the target, or with no target,
\* takes the slot of that id out of the list, adds nothing and leaves every
\* other slot as it was, in its place
C7_FullDelete ==
  [][FullDeleteRequested(lastOp') =>
       /\ slots' = Without(slots, lastOp'.id)
       /\ Len(slots') = Len(slots) - 1
       /\ IdsOf(slots') = IdsOf(slots) \ {lastOp'.id}]_vars

\* a slot has been deleted by its own range, another slot remaining
C7_Witness ==
  /\ FullDeleteRequested(lastOp)
  /\ lastOp.targetStart = lastOp.pre.startTime
  /\ lastOp.targetEnd = lastOp.pre.endTime
  /\ lastOp.id \notin IdsOf(slots)
  /\ Len(slots) >= 1

\* C8: a delete whose target is not within [pStart,pEnd] changes nothing in
\* the list, sends no request and reports the failure to its caller
C8_OutOfBoundsDelete ==
  [][(/\ DeleteRequested(lastOp')
      /\ \/ Clock(lastOp'.targetStart) < From(lastOp'.pre)
         \/ Clock(lastOp'.targetEnd) > To(lastOp'.pre)) =>
        /\ slots' = slots
        /\ lastOp'.sent = {}
        /\ lastOp'.reported]_vars

\* op asks for a range with start >= end
InvalidRangeRequested(op) ==
  \/ /\ op.op = "save"
     /\ op.d.startTime \in Times
     /\ op.d.endTime \in Times
     /\ From(op.d) >= To(op.d)
  \/ /\ op.op = "delete"
     /\ op.targetStart \in Times
     /\ op.targetEnd \in Times
     /\ Clock(op.targetStart) >= Clock(op.targetEnd)

\* C9: a create, resize or delete that asks for a range with start >= end
\* leaves the list as it was
C9_InvalidRangeRejected ==
  [][InvalidRangeRequested(lastOp') => slots' = slots]_vars

\* C10: every slot of the list starts before it ends
C10_StartBeforeEnd ==
  \A i \in 1..Len(slots) : From(slots[i]) < To(slots[i])

\* op is a resize of an existing slot [S,E] to a range [s,e] that is not within it
ExpansionRequested(op) ==
  /\ op.op = "save"
  /\ op.d.id # NoId
  /\ op.pre # NoSlot
  /\ (From(op.d) < From(op.pre) \/ To(op.d) > To(op.pre))

\* C11: a resize to a range that is not within the slot's range gives the slot
\* of that id the requested bounds, adds no slot and changes no other slot
C11_ExpansionReplaces ==
  [][ExpansionRequested(lastOp') =>
       /\ Len(slots') = Len(slots)
       /\ \A i \in 1..Len(slots) :
            IF slots[i].id = lastOp'.d.id
            THEN /\ slots'[i].id = slots[i].id
                 /\ slots'[i].startTime = lastOp'.d.startTime
                 /\ slots'[i].endTime = lastOp'.d.endTime
            ELSE slots'[i] = slots[i]]_vars

\* a slot has been widened on both sides, another slot being in the list
C11_Witness ==
  /\ ExpansionRequested(lastOp)
  /\ From(lastOp.d) < From(lastOp.pre)
  /\ To(lastOp.d) > To(lastOp.pre)
  /\ Len(slots) >= 2
  /\ \E i \in 1..Len(slots) :
       /\ slots[i].id = lastOp.d.id
       /\ slots[i].startTime = lastOp.d.startTime
       /\ slots[i].endTime = lastOp.d.endTime

\* C12: a resize or delete naming an id that no slot of the list has leaves
\* the slot list, the interviewers and the selection as they were and sends
\* no request
C12_NotFoundMutatesNothing ==
  [][(/\ lastOp'.op \in {"save", "saveAwait", "delete"}
      /\ lastOp'.id # NoId
      /\ lastOp'.id \notin IdsOf(slots)) =>
        /\ slots' = slots
        /\ interviewers' = interviewers
        /\ selectedInterviewerIds' = selectedInterviewerIds
        /\ lastOp'.sent = {}]_vars

\* the day has been cut into units
Rendered == view.pc \in {"done", "clicked"}

\* the units that came from the k-th slot of the day, in the order of the result
UnitsOf(k) == SelectSeq(view.result, LAMBDA u : u.src = k)

\* both bounds are times and the first is before the second
ValidRange(slot) ==
  /\ IsValidTime(slot.startTime) /\ IsValidTime(slot.endTime)
  /\ ParseTime(slot.startTime) < ParseTime(slot.endTime)

\* C13: once the day is cut, a slot with valid times and start < end has
\* exactly floor((end - start) / 30) units, the i-th of them running from
\* start + 30 (i - 1) to start + 30 i; so a slot shorter than half an hour
\* has none
C13_UnitsPerSlot ==
  Rendered =>
    \A k \in 1..Len(view.day) :
      ValidRange(view.day[k]) =>
        LET s == ParseTime(view.day[k].startTime)
            e == ParseTime(view.day[k].endTime)
        IN /\ Len(UnitsOf(k)) = (e - s) \div 30
           /\ \A i \in 1..Len(UnitsOf(k)) :
                /\ UnitsOf(k)[i].startTime = FormatTime(s + 30 * (i - 1))
                /\ UnitsOf(k)[i].endTime = FormatTime(s + 30 * i)

\* C14: a click on a unit, the single-unit fallback included, resolves to the
\* id of the slot the unit was made from, and no two units of one day have
\* the same rendering key
C14_ClickResolvesAndKeysUnique ==
  /\ view.pc = "clicked" =>
       view.realId = IdText(view.day[view.result[view.clicked].src].id)
  /\ Rendered =>
       \A i, j \in 1..Len(view.result) :
         i # j => view.result[i].id # view.result[j].id

\* a bound is missing or is no time, or the first is not before the second
DegenerateSlot(slot) == ~ValidRange(slot)

\* the k-th slot of the day was pushed as it is, once
EmittedUnchanged(k) ==
  /\ Len(UnitsOf(k)) = 1
  /\ UnitsOf(k)[1].id = IdText(view.day[k].id)
  /\ UnitsOf(k)[1].originalId = NoId
  /\ \A f \in {"interviewerId", "date", "startTime", "endTime", "isBooked"} :
       UnitsOf(k)[1][f] = view.day[k][f]

\* C15: cutting a day into units ends whatever the slots are; the loop of one
\* slot makes at most 50 passes; a slot with a missing or unparsable time or
\* with start >= end never enters the loop and is emitted once, unchanged
C15_SplitTerminates ==
  /\ <>Rendered
  /\ [](view.safety <= 50)
  /\ [](view.pc = "while" => ~DegenerateSlot(view.day[view.k]))
  /\ [](\A k \in 1..Len(view.day) :
          (DegenerateSlot(view.day[k]) /\ (k < view.k \/ Rendered)) => EmittedUnchanged(k))

\* a day with a degenerate slot and a slot of the whole day has been cut
C15_Witness ==
  /\ Rendered
  /\ view.safety = 47
  /\ \E k \in 1..Len(view.day) : DegenerateSlot(view.day[k]) /\ EmittedUnchanged(k)

\* the rows of a table now
TableRows(table) ==
  CASE table = "Slots" -> sheetSlots
    [] table = "Notes" -> sheetNotes
    [] table = "Interviewers" -> sheetInv

\* column A of a row
KeyOf(table, row) == IF table = "Notes" THEN row.date ELSE row.id

\* the delete handler of a table run once more on given rows
DeleteByKey(table, rows, key) ==
  IF table = "Notes" THEN DeleteNote(rows, key) ELSE DeleteAll(rows, key)

\* C16: after a delete by key has run alone on the Slots or the Notes table,
\* no row of that table has the key, duplicates or not, and running the
\* delete again would leave the table as it is
C16_DeleteByKeyRemovesAll ==
  lastOp.op = "deleteByKey" =>
    LET rows == TableRows(lastOp.table)
    IN /\ \A i \in 1..Len(rows) : KeyOf(lastOp.table, rows[i]) # lastOp.key
       /\ DeleteByKey(lastOp.table, rows, lastOp.key) = rows

\* String(x).trim() of a date text
TrimText(d) == IF d = "2025-05-12 " THEN "2025-05-12" ELSE d

\* the key of a row or of a request as a trimmed string
NormalKey(table, k) == IF table = "Notes" THEN TrimText(k) ELSE TrimId(k)

\* the places of the rows whose key equals the key k once both are normalised
MatchesOf(table, rows, k) ==
  {i \in 1..Len(rows) : NormalKey(table, KeyOf(table, rows[i])) = NormalKey(table, k)}

\* the least member of a non-empty set of numbers
Least(S) == CHOOSE i \in S : \A j \in S : i <= j

\* C19: an upsert run alone appends the row when no row of the table has the
\* key, and otherwise overwrites the first row that has it and nothing else,
\* keys being compared as trimmed strings in every table
C19_UpsertAppendsOrOverwritesFirst ==
  lastOp.op = "upsert" =>
    LET rows == TableRows(lastOp.table)
        m == MatchesOf(lastOp.table, lastOp.before, lastOp.key)
    IN IF m = {}
       THEN rows = Append(lastOp.before, lastOp.row)
       ELSE rows = [lastOp.before EXCEPT ![Least(m)] = lastOp.row]

\* the GETs answered with data read from the store since the last write
\* request that arrived less than 30 seconds before the time t
RecentAnswers(t) == {a \in hist.answered : t - a.arrived < CACHE_TTL}

\* C17: a GET that arrives less than 30 seconds after a GET that was answered
\* with data of the store, no write request having arrived or been answered
\* since, is answered from the cache, without a store read, with the data of
\* that GET
C17_CachedWithinTTL ==
  [][(lastOp'.op = "get" /\ RecentAnswers(lastOp'.arrived) # {}) =>
       /\ lastOp'.hit
       /\ \A a \in RecentAnswers(lastOp'.arrived) : lastOp'.data = a.data]_vars

\* C18: when a write request of any kind arrives the cache is emptied, before
\* its store call succeeds or fails, and the first GET to arrive after a write
\* request was answered reads the store
C18_WriteEmptiesCache ==
  [][/\ lastOp'.op = "write" => (cachedData'.null /\ lastCacheTime' = 0)
     /\ (lastOp'.op = "get" /\ hist.wrote) => ~lastOp'.hit]_vars

\* the slot that a save asks for is in the list: the edited slot has the
\* requested bounds, or, for a new slot, some slot of the list has them
SavedSlotIn(list, d) ==
  \E i \in 1..Len(list) :
    /\ d.id # NoId => list[i].id = d.id
    /\ list[i].startTime = d.startTime
    /\ list[i].endTime = d.endTime

\* C20: whenever a step of a save or of a delete sends a request, the change
\* the action makes to the slot list is in the list after that step, also
\* when the save creates a new interviewer
C20_LocalChangeBeforeRequest ==
  [][/\ (/\ lastOp'.op \in {"save", "saveAwait"}
         /\ lastOp'.sent # {}
         /\ (lastOp'.d.id = NoId \/ lastOp'.pre # NoSlot)) => SavedSlotIn(slots', lastOp'.d)
     /\ (lastOp'.op = "delete" /\ lastOp'.sent # {}) =>
          slots' = DeleteResult(slots, lastOp'.id, lastOp'.targetStart, lastOp'.targetEnd,
                                uuid).slots]_vars

\* a call of fetchData() was made in this step
Refetched == \E c \in calls' \ calls : c.kind = "fetchData"

\* C21: whenever a write request, that of ensureInterviewerExists included, is
\* rejected or answered with an error status, the same run of the handler
\* shows a notice and calls fetchData()
C21_FailureNoticedAndRefetched ==
  [][(/\ lastOp'.op = "answered"
      /\ lastOp'.outcome \in {"status", "rejected"}) => (lastOp'.alerted /\ Refetched)]_vars

\* the rows of a tab that hold data: all but a header row
DataRows(rows, header) == SelectSeq(rows, LAMBDA r : r # header)

\* a local slot and a row of the Slots tab say the same
SlotIsRow(slot, row) ==
  /\ slot.id = row.id
  /\ slot.interviewerId = row.interviewerId
  /\ slot.date = row.date
  /\ slot.startTime = row.startTime
  /\ slot.endTime = row.endTime
  /\ slot.isBooked = row.isBooked

\* C22: when the refetch that a rejected request caused is answered, the local
\* slots, interviewers and notes are the data rows of the three tabs as they
\* are at that moment, one for one
C22_RefetchEqualsStore ==
  [][lastOp'.op = "refetch" =>
       /\ Len(slots') = Len(DataRows(sheetSlots, HeaderRow))
       /\ \A i \in 1..Len(slots') : SlotIsRow(slots'[i], DataRows(sheetSlots, HeaderRow)[i])
       /\ interviewers' = DataRows(sheetInv, InvHeaderRow)
       /\ dayNotes' = DataRows(sheetNotes, NoteHeaderRow)]_vars

\* name.toLowerCase() of a trimmed name
LowerName(n) == ToLower(Trim(n))

\* the persons created so far: those of the local list, those a suspended
\* handler holds, and those of the Interviewers tab
CreatedPersons ==
  {interviewers[i] : i \in 1..Len(interviewers)}
    \cup {p.inv : p \in pending} \cup {c.inv : c \in calls}
    \cup {sheetInv[i] : i \in 2..Len(sheetInv)}

\* no two persons of a list have names that are equal ignoring case
NoDuplicateNames(list) ==
  \A i, j \in 1..Len(list) : i # j => LowerName(list[i].name) # LowerName(list[j].name)

\* C23: after every step of slot saves, batch adds and AI imports, overlapping
\* or not, no two persons of the local list have names that are equal ignoring
\* case, and a step creates a person only under a name that no person created
\* so far has
C23_OnePersonPerName ==
  [][/\ NoDuplicateNames(interviewers')
     /\ lastOp'.op \in {"saveAwait", "batchAwait"} =>
          \A p \in CreatedPersons' \ CreatedPersons :
            \A e \in CreatedPersons : LowerName(e.name) # LowerName(p.name)]_vars


\* C24: a positional write of a slot handler (a row update or a row delete)
\* lands on a row whose key differs from the key scanned for only when the tab
\* was changed by another request between the scan and the write; such an
\* interleaving of two write requests exists (C24_Witness)
C24_MisdirectedOnlyWhenInterleaved ==
  [][(/\ lastOp'.op \in {"update", "delete"}
      /\ lastOp'.hit # lastOp'.key) => lastOp'.moved]_vars

\* a positional write has landed on a row that holds another key
C24_Witness ==
  /\ lastOp.op \in {"update", "delete"}
  /\ lastOp.hit \notin {lastOp.key, NoId}
  /\ lastOp.moved


\* the handler calls that have a request in flight
InFlightCalls == {c \in calls : c.kind \in Handlers /\ c.out > 0}

\* C25: whenever at least one persistence call is in flight, isSaving is true,
\* also when the calls of several actions overlap
C25_SavingWhileInFlight == InFlightCalls # {} => isSaving

\* the same for the calls of one handler that runs alone and met no rejection
SavingWhileAlone ==
  (Cardinality(calls) = 1 /\ ops = 1 /\ \A c \in InFlightCalls : ~c.done) =>
    (InFlightCalls # {} => isSaving)


\* every issued call has completed
Quiescent == net = {} /\ pending = {}

\* the rows of the Slots tab below the header
StoredSlots == DataRows(sheetSlots, HeaderRow)

\* C26: once every issued call has completed, the Slots tab holds exactly one
\* row per local slot, with the same id, owner, date, start, end and booked
\* flag, and no other row, whatever the order in which the calls completed
C26_StoreMatchesLocal ==
  Quiescent =>
    /\ Len(StoredSlots) = Len(slots)
    /\ \A i \in 1..Len(slots) :
         Cardinality({j \in 1..Len(StoredSlots) : StoredSlots[j].id = slots[i].id}) = 1
    /\ \A i \in 1..Len(slots) : \E j \in 1..Len(StoredSlots) : StoredSlots[j] = slots[i]


\* C27: a GET /api/data that starts after a write request has completed never
\* returns data read before that write.  The store changes only when a write
\* completes and a GET that misses the cache reads the store after it started,
\* so this says: a GET answered from the cache returns what the store holds
C27_NoStaleAfterWrite ==
  [][(lastOp'.op = "get" /\ lastOp'.hit) => lastOp'.data = Snapshot]_vars


\* units without the place of their slot in the list
WithoutSrc(units) == [i \in 1..Len(units) |-> [units[i] EXCEPT !.src = 0]]

\* the cut done step by step is the function of the day's list
StepwiseIsFunction == Rendered => view.result = splitSlotsForDisplay(view.day)

\* C28: the units emitted for a slot of the day are those emitted for that
\* slot when it is passed alone, whatever the other slots of the list
C28_UnitsDependOnSlotOnly ==
  Rendered =>
    \A k \in 1..Len(view.day) :
      WithoutSrc(UnitsOf(k)) = WithoutSrc(splitSlotsForDisplay(<<view.day[k]>>))


\* the dates of the notes of a list
DatesOf(notes) == {notes[i].date : i \in 1..Len(notes)}

\* what a refetch would put into the local notes now
RefetchedNotes == validNotes(GetNotes(sheetNotes))

\* C29: when a note save or a note delete has completed without failure and
\* no other call is in flight, there is at most one local note per date, and
\* a date has a local note exactly when a refetch would return one for it,
\* also when the content saved is empty or blank
C29_NotesAgreeOnDates ==
  (lastOp.op \in {"noteSaved", "noteDeleted"} /\ net = {}) =>
    /\ \A i, j \in 1..Len(dayNotes) : i # j => dayNotes[i].date # dayNotes[j].date
    /\ DatesOf(dayNotes) = DatesOf(RefetchedNotes)


\* the rows that the step appended to the Slots tab, if it was an append
AppendedRows ==
  IF /\ Len(sheetSlots') > Len(sheetSlots)
     /\ SubSeq(sheetSlots', 1, Len(sheetSlots)) = sheetSlots
  THEN SubSeq(sheetSlots', Len(sheetSlots) + 1, Len(sheetSlots'))
  ELSE <<>>

\* C30: every slot row appended with a non-empty id and date is among the
\* slots that a GET /api/data reading the store right after the append
\* returns, the first row appended to a tab created empty included
C30_AppendedRowReturned ==
  [][\A i \in 1..Len(AppendedRows) :
       (AppendedRows[i].id # NoId /\ AppendedRows[i].date # "") =>
         \E j \in 1..Len(GetSlots(sheetSlots')) :
           /\ GetSlots(sheetSlots')[j].id = AppendedRows[i].id
           /\ GetSlots(sheetSlots')[j].date = AppendedRows[i].date]_vars

\* the same for a tab that has a header row
AppendedRowReturnedUnderHeader ==
  [][(Len(sheetSlots) > 0 /\ sheetSlots[1] = HeaderRow) =>
       \A i \in 1..Len(AppendedRows) :
         (AppendedRows[i].id # NoId /\ AppendedRows[i].date # "") =>
           \E j \in 1..Len(GetSlots(sheetSlots')) :
             /\ GetSlots(sheetSlots')[j].id = AppendedRows[i].id
             /\ GetSlots(sheetSlots')[j].date = AppendedRows[i].date]_vars

====
